---- MODULE Spec2Model ----
(***************************************************************************)
(* FlightPulse: the three Step Functions workflows of                      *)
(* infrastructure/lib/flightpulse-stack.ts (Delay, Cancellation,           *)
(* Gate-Change), the EventBridge rules that start them, and the DynamoDB   *)
(* single-table records they read and write.                               *)
(*                                                                         *)
(* Each state of a workflow is a definition that records what the CDK      *)
(* construct sets: its type, the JSON paths its parameters reference, its  *)
(* ResultPath (absent in the source = "$", the result REPLACES the state   *)
(* input), its Catch and its successor.  The actions below are the         *)
(* Amazon States Language execution rules applied to those definitions.    *)
(*                                                                         *)
(* A state input (context) is a function from top-level keys to values.    *)
(* An array value that becomes the whole state input (the output of a Map  *)
(* or Parallel state without ResultPath) is the function with the single   *)
(* key "$array"; no path of the source names that key.                     *)
(* DynamoDB attribute-value typing ({"S": ...}) is not modelled: attribute *)
(* values are the plain values.                                            *)
(***************************************************************************)
EXTENDS Integers, Sequences, FiniteSets, TLC

(* ---------------------------- bounds ---------------------------------- *)
MaxEvents == 2      \* trigger events published on the bus
MaxFaults == 1      \* task calls that the environment makes fail
MaxRequests == 2    \* requests served by the read API

(* ------------------------- program constants -------------------------- *)
MaxConcurrency == 10

KafkaSource == "flightpulse.kafka-consumer"
WorkflowSource == "flightpulse.workflow"

(* ------------------------------ data ---------------------------------- *)
FlightIds == {"F1", "F2"}
BookingIds == {"B1", "B2"}
PassengerIds == {"P1", "P2"}

\* A flight id of an event for which the store holds no record.
UnknownFlight == "F9"

\* A flight with one booking more than a Map state runs at a time.
BulkFlight == "F3"
BulkBookingIds ==
    <<"B3", "B4", "B5", "B6", "B7", "B8", "B9", "B10", "B11", "B12", "B13">>

\* Flight -> Bookings lookup records (PK = FLIGHT#f, SK = BOOKING#b), each
\* carrying booking_id and passenger_id.  F1 has two bookings, F2 none.
FlightBookingLookup ==
    [f \in FlightIds \cup {BulkFlight, UnknownFlight} |->
        IF f = "F1"
        THEN << [booking_id |-> "B1", passenger_id |-> "P1"],
                [booking_id |-> "B2", passenger_id |-> "P2"] >>
        ELSE IF f = BulkFlight
        THEN [i \in 1..(MaxConcurrency + 1) |->
                [booking_id |-> BulkBookingIds[i], passenger_id |-> "P1"]]
        ELSE << >>]

\* Passenger -> Bookings lookup records (PK = PASSENGER#p, SK = BOOKING#b),
\* each carrying booking_id and flight_id.
PassengerBookingLookup ==
    [p \in PassengerIds |->
        IF p = "P1" THEN << [booking_id |-> "B1", flight_id |-> "F1"] >>
        ELSE << [booking_id |-> "B2", flight_id |-> "F1"] >>]

PassengerItem(p) ==
    [passenger_id |-> p,
     tier |-> "MEMBER",
     email |-> <<"email", p>>,
     phone |-> <<"phone", p>>,
     notification_preferences |->
        [email |-> TRUE, sms |-> (p = "P2")]]

DelayTypes == {"flight.delay.minor", "flight.delay.major", "flight.delay.severe"}
TriggerTypes == DelayTypes \cup {"flight.cancelled", "flight.gate_change"}

\* The ingestion source classifies a delay by its minutes: minor below 30,
\* severe above 120, major between.
DelayMinutes(dt) ==
    IF dt = "flight.delay.minor" THEN {25}
    ELSE IF dt = "flight.delay.major" THEN {90}
    ELSE {150}
Gates == {"B7"}

\* The detail of a trigger event, by detail type.
Details(dt) ==
    IF dt \in DelayTypes
    THEN [flight_id : FlightIds, delay_minutes : DelayMinutes(dt), reason : {"WEATHER"}]
    ELSE IF dt = "flight.cancelled"
    THEN [flight_id : FlightIds, reason : {"WEATHER"}]
    ELSE [flight_id : FlightIds \cup {UnknownFlight}, new_gate : Gates]

(* ------------------------- JSON path helpers -------------------------- *)
RECURSIVE HasPath(_, _)
HasPath(v, p) ==
    IF p = << >> THEN TRUE
    ELSE /\ Head(p) \in DOMAIN v
         /\ HasPath(v[Head(p)], Tail(p))

RECURSIVE GetPath(_, _)
GetPath(v, p) ==
    IF p = << >> THEN v ELSE GetPath(v[Head(p)], Tail(p))

ArrayCtx(s) == ("$array" :> s)

\* ResultPath "$" replaces the state input by the result; ResultPath $.k
\* writes the result under key k and keeps the other keys.
ApplyResultPath(ctx, rp, r) ==
    IF rp = "$" THEN r
    ELSE [k \in (DOMAIN ctx) \cup {rp} |-> IF k = rp THEN r ELSE ctx[k]]

\* A parameter source: a literal, a path into the state input ("$.a.b"),
\* or a path into the execution input ("$$.Execution.Input.a").
Lit(v) == [kind |-> "lit", v |-> v, p |-> << >>]
Ref(p) == [kind |-> "ref", v |-> "", p |-> p]
ExecInput(p) == [kind |-> "exec", v |-> "", p |-> p]

Eval(src, ctx, input) ==
    IF src.kind = "lit" THEN src.v
    ELSE IF src.kind = "ref" THEN GetPath(ctx, src.p)
    ELSE GetPath(input, src.p)

\* Every path the parameters reference exists.
Resolvable(params, ctx, input) ==
    \A k \in DOMAIN params :
        /\ params[k].kind = "ref" => HasPath(ctx, params[k].p)
        /\ params[k].kind = "exec" => HasPath(input, params[k].p)

EvalParams(params, ctx, input) ==
    [k \in DOMAIN params |-> Eval(params[k], ctx, input)]

NoCatch == "None"
End == "End"
NoParams == [k \in {} |-> Lit("")]

(* --------------------- createProcessBookingsMap ----------------------- *)
GetPassengerDetails ==
    [Type |-> "Task", Action |-> "dynamodb:getItem",
     Params |-> ("Key" :> Ref(<<"passenger_id">>)),
     ResultPath |-> "$", Catch |-> NoCatch, CatchResultPath |-> "$",
     Next |-> "GeneratePersonalizedMessage"]

GeneratePersonalizedMessage(messageType) ==
    [Type |-> "Task", Action |-> "lambda:invoke",
     Params |-> ("passenger" :> Ref(<<"Item">>)) @@
                ("flight_event" :> ExecInput(<<"detail">>)) @@
                ("message_type" :> Lit(messageType)),
     ResultPath |-> "MessageResult", Catch |-> NoCatch, CatchResultPath |-> "$",
     Next |-> "SendNotifications"]

CheckEmailPreference ==
    [Type |-> "Choice",
     Variable |-> <<"Item", "notification_preferences", "email">>,
     Op |-> "BooleanEquals", Value |-> TRUE,
     Then |-> "PublishEmailEvent", Default |-> "SkipEmail"]

PublishEmailEvent ==
    [Type |-> "Task", Action |-> "events:putEvents",
     Params |-> ("to" :> Ref(<<"Item", "email">>)) @@
                ("subject" :> Ref(<<"MessageResult", "Payload", "email_subject">>)) @@
                ("body" :> Ref(<<"MessageResult", "Payload", "email_body">>)),
     DetailType |-> "notification.email", Source |-> WorkflowSource,
     ResultPath |-> "$", Catch |-> NoCatch, CatchResultPath |-> "$",
     Next |-> End]

CheckSmsPreference ==
    [Type |-> "Choice",
     Variable |-> <<"Item", "notification_preferences", "sms">>,
     Op |-> "BooleanEquals", Value |-> TRUE,
     Then |-> "PublishSmsEvent", Default |-> "SkipSms"]

PublishSmsEvent ==
    [Type |-> "Task", Action |-> "events:putEvents",
     Params |-> ("to" :> Ref(<<"Item", "phone">>)) @@
                ("message" :> Ref(<<"MessageResult", "Payload", "sms_body">>)),
     DetailType |-> "notification.sms", Source |-> WorkflowSource,
     ResultPath |-> "$", Catch |-> NoCatch, CatchResultPath |-> "$",
     Next |-> End]

PassEnd == [Type |-> "Pass", Next |-> End]

SendNotifications ==
    [Type |-> "Parallel",
     Branches |-> <<"CheckEmailPreference", "CheckSmsPreference">>,
     ResultPath |-> "$", Catch |-> NoCatch, CatchResultPath |-> "$",
     Next |-> End]

\* The Map state.  "$" in a Map's Parameters is the Map state's input; the
\* current item is $$.Map.Item.Value, which the source does not use.
ProcessBookingsInParallel ==
    [Type |-> "Map", ItemsPath |-> <<"Items">>,
     MaxConcurrency |-> MaxConcurrency,
     HasParams |-> TRUE,
     Params |-> ("passenger_id" :> Ref(<<"passenger_id">>)) @@
                ("booking_id" :> Ref(<<"booking_id">>)) @@
                ("detail" :> ExecInput(<<"detail">>)),
     Iterator |-> "GetPassengerDetails",
     ResultPath |-> "$", Catch |-> NoCatch, CatchResultPath |-> "$",
     Next |-> End]

\* The states createProcessBookingsMap adds, with the Map's successor.
createProcessBookingsMap(messageType, next) ==
    ("ProcessBookingsInParallel" :> [ProcessBookingsInParallel EXCEPT !.Next = next]) @@
    ("GetPassengerDetails" :> GetPassengerDetails) @@
    ("GeneratePersonalizedMessage" :> GeneratePersonalizedMessage(messageType)) @@
    ("SendNotifications" :> SendNotifications) @@
    ("CheckEmailPreference" :> CheckEmailPreference) @@
    ("PublishEmailEvent" :> PublishEmailEvent) @@
    ("SkipEmail" :> PassEnd) @@
    ("CheckSmsPreference" :> CheckSmsPreference) @@
    ("PublishSmsEvent" :> PublishSmsEvent) @@
    ("SkipSms" :> PassEnd)

WorkflowComplete == [Type |-> "Succeed", Next |-> End]

(* ------------------------- createDelayWorkflow ------------------------ *)
NotifyDelayFailure ==
    [Type |-> "Task", Action |-> "sns:publish",
     Params |-> ("workflow" :> Lit("DelayNotification")) @@
                ("error" :> Ref(<<"Error">>)) @@
                ("cause" :> Ref(<<"Cause">>)) @@
                ("input" :> Ref(<< >>)),
     ResultPath |-> "$", Catch |-> NoCatch, CatchResultPath |-> "$",
     Next |-> End]

\* The Catch of GetAffectedBookings pointing at the next step.
DelayGetBookings_CatchContinues ==
    [Type |-> "Task", Action |-> "dynamodb:query",
     Params |-> ("pk" :> Ref(<<"detail", "flight_id">>)),
     ResultPath |-> "$",
     Catch |-> "ProcessAndUpdate", CatchResultPath |-> "error",
     Next |-> "ProcessAndUpdate"]

DelayGetBookings ==
    [Type |-> "Task", Action |-> "dynamodb:query",
     Params |-> ("pk" :> Ref(<<"detail", "flight_id">>)),
     ResultPath |-> "$",
     Catch |-> "NotifyDelayFailure", CatchResultPath |-> "error",
     Next |-> "ProcessAndUpdate"]

CheckBookingsExist ==
    [Type |-> "Choice", Variable |-> <<"Count">>,
     Op |-> "NumericGreaterThan", Value |-> 0,
     Then |-> "ProcessBookingsInParallel", Default |-> "NoBookingsFound"]

\* The update expression without the delay_reason assignment.
DelayUpdateFlight_NoReason ==
    [Type |-> "Task", Action |-> "dynamodb:updateItem", Table |-> "FLIGHT",
     Params |-> ("Key" :> Ref(<<"detail", "flight_id">>)) @@
                ("status" :> Lit("DELAYED")) @@
                ("delay_minutes" :> Ref(<<"detail", "delay_minutes">>)) @@
                ("GSI1PK" :> Lit("DELAYED")),
     ResultPath |-> "$",
     Catch |-> "NotifyDelayFailure", CatchResultPath |-> "error",
     Next |-> End]

DelayUpdateFlight ==
    [Type |-> "Task", Action |-> "dynamodb:updateItem", Table |-> "FLIGHT",
     Params |-> ("Key" :> Ref(<<"detail", "flight_id">>)) @@
                ("status" :> Lit("DELAYED")) @@
                ("delay_minutes" :> Ref(<<"detail", "delay_minutes">>)) @@
                ("delay_reason" :> Ref(<<"detail", "reason">>)) @@
                ("GSI1PK" :> Lit("DELAYED")),
     ResultPath |-> "$",
     Catch |-> "NotifyDelayFailure", CatchResultPath |-> "error",
     Next |-> End]

\* The Parallel state without its UpdateFlightStatus branch.
ProcessAndUpdate_NoUpdateBranch ==
    [Type |-> "Parallel",
     Branches |-> <<"CheckBookingsExist">>,
     ResultPath |-> "$",
     Catch |-> "NotifyDelayFailure", CatchResultPath |-> "error",
     Next |-> "WorkflowComplete"]

ProcessAndUpdate ==
    [Type |-> "Parallel",
     Branches |-> <<"CheckBookingsExist", "UpdateFlightStatus">>,
     ResultPath |-> "$",
     Catch |-> "NotifyDelayFailure", CatchResultPath |-> "error",
     Next |-> "WorkflowComplete"]

createDelayWorkflow ==
    [StartAt |-> "GetAffectedBookings",
     States |->
        ("GetAffectedBookings" :> DelayGetBookings) @@
        ("ProcessAndUpdate" :> ProcessAndUpdate) @@
        ("CheckBookingsExist" :> CheckBookingsExist) @@
        ("NoBookingsFound" :> PassEnd) @@
        ("UpdateFlightStatus" :> DelayUpdateFlight) @@
        ("NotifyDelayFailure" :> NotifyDelayFailure) @@
        ("WorkflowComplete" :> WorkflowComplete) @@
        createProcessBookingsMap("DELAY_NOTIFICATION", End)]

(* ---------------------- createCancellationWorkflow -------------------- *)
\* GetAffectedBookings chained straight to ProcessBookings.
CancelGetBookings_SkipsMarking ==
    [Type |-> "Task", Action |-> "dynamodb:query",
     Params |-> ("pk" :> Ref(<<"detail", "flight_id">>)),
     ResultPath |-> "$", Catch |-> NoCatch, CatchResultPath |-> "$",
     Next |-> "ProcessBookingsInParallel"]

CancelGetBookings ==
    [Type |-> "Task", Action |-> "dynamodb:query",
     Params |-> ("pk" :> Ref(<<"detail", "flight_id">>)),
     ResultPath |-> "$", Catch |-> NoCatch, CatchResultPath |-> "$",
     Next |-> "MarkBookingsForRebooking"]

MarkBookingsForRebooking ==
    [Type |-> "Map", ItemsPath |-> <<"Items">>,
     MaxConcurrency |-> MaxConcurrency,
     HasParams |-> FALSE, Params |-> NoParams,
     Iterator |-> "UpdateBookingStatus",
     ResultPath |-> "$", Catch |-> NoCatch, CatchResultPath |-> "$",
     Next |-> "ProcessBookingsInParallel"]

\* The update expression without the GSI2PK assignment.
UpdateBookingStatus_NoIndexKey ==
    [Type |-> "Task", Action |-> "dynamodb:updateItem", Table |-> "BOOKING",
     Params |-> ("Key" :> Ref(<<"booking_id">>)) @@
                ("booking_status" :> Lit("NEEDS_REBOOKING")),
     ResultPath |-> "$", Catch |-> NoCatch, CatchResultPath |-> "$",
     Next |-> End]

UpdateBookingStatus ==
    [Type |-> "Task", Action |-> "dynamodb:updateItem", Table |-> "BOOKING",
     Params |-> ("Key" :> Ref(<<"booking_id">>)) @@
                ("booking_status" :> Lit("NEEDS_REBOOKING")) @@
                ("GSI2PK" :> Lit("NEEDS_REBOOKING")),
     ResultPath |-> "$", Catch |-> NoCatch, CatchResultPath |-> "$",
     Next |-> End]

CancelUpdateFlight ==
    [Type |-> "Task", Action |-> "dynamodb:updateItem", Table |-> "FLIGHT",
     Params |-> ("Key" :> Ref(<<"detail", "flight_id">>)) @@
                ("status" :> Lit("CANCELLED")) @@
                ("GSI1PK" :> Lit("CANCELLED")),
     ResultPath |-> "$", Catch |-> NoCatch, CatchResultPath |-> "$",
     Next |-> "WorkflowComplete"]

\* The definition started at the flight update.
createCancellationWorkflow_UpdateFirst ==
    [StartAt |-> "UpdateFlightStatus",
     States |->
        ("GetAffectedBookings" :> CancelGetBookings) @@
        ("MarkBookingsForRebooking" :> MarkBookingsForRebooking) @@
        ("UpdateBookingStatus" :> UpdateBookingStatus) @@
        ("UpdateFlightStatus" :> CancelUpdateFlight) @@
        ("WorkflowComplete" :> WorkflowComplete) @@
        createProcessBookingsMap("CANCELLATION_NOTIFICATION", "UpdateFlightStatus")]

createCancellationWorkflow ==
    [StartAt |-> "GetAffectedBookings",
     States |->
        ("GetAffectedBookings" :> CancelGetBookings) @@
        ("MarkBookingsForRebooking" :> MarkBookingsForRebooking) @@
        ("UpdateBookingStatus" :> UpdateBookingStatus) @@
        ("UpdateFlightStatus" :> CancelUpdateFlight) @@
        ("WorkflowComplete" :> WorkflowComplete) @@
        createProcessBookingsMap("CANCELLATION_NOTIFICATION", "UpdateFlightStatus")]

(* ----------------------- createGateChangeWorkflow --------------------- *)
UpdateFlightGate ==
    [Type |-> "Task", Action |-> "dynamodb:updateItem", Table |-> "FLIGHT",
     Params |-> ("Key" :> Ref(<<"detail", "flight_id">>)) @@
                ("gate" :> Ref(<<"detail", "new_gate">>)),
     ResultPath |-> "$", Catch |-> NoCatch, CatchResultPath |-> "$",
     Next |-> "GetAffectedBookings"]

GateGetBookings ==
    [Type |-> "Task", Action |-> "dynamodb:query",
     Params |-> ("pk" :> Ref(<<"detail", "flight_id">>)),
     ResultPath |-> "$", Catch |-> NoCatch, CatchResultPath |-> "$",
     Next |-> "ProcessBookingsInParallel"]

createGateChangeWorkflow ==
    [StartAt |-> "UpdateFlightGate",
     States |->
        ("UpdateFlightGate" :> UpdateFlightGate) @@
        ("GetAffectedBookings" :> GateGetBookings) @@
        ("WorkflowComplete" :> WorkflowComplete) @@
        createProcessBookingsMap("GATE_CHANGE_NOTIFICATION", "WorkflowComplete")]

Workflows == {"Delay", "Cancellation", "GateChange"}

StateMachine(wf) ==
    IF wf = "Delay" THEN createDelayWorkflow
    ELSE IF wf = "Cancellation" THEN createCancellationWorkflow
    ELSE createGateChangeWorkflow

Def(wf, st) == StateMachine(wf).States[st]

(* --------------------------- EventBridge rules ------------------------ *)
\* Rules with the severe rule's pattern copied from the major rule.
Rules_SevereMistyped ==
    { [id |-> "DelayMinorRule", source |-> KafkaSource,
       detailType |-> "flight.delay.minor", target |-> "Delay"],
      [id |-> "DelayMajorRule", source |-> KafkaSource,
       detailType |-> "flight.delay.major", target |-> "Delay"],
      [id |-> "DelaySevereRule", source |-> KafkaSource,
       detailType |-> "flight.delay.major", target |-> "Delay"],
      [id |-> "CancellationRule", source |-> KafkaSource,
       detailType |-> "flight.cancelled", target |-> "Cancellation"],
      [id |-> "GateChangeRule", source |-> KafkaSource,
       detailType |-> "flight.gate_change", target |-> "GateChange"] }

Rules ==
    { [id |-> "DelayMinorRule", source |-> KafkaSource,
       detailType |-> "flight.delay.minor", target |-> "Delay"],
      [id |-> "DelayMajorRule", source |-> KafkaSource,
       detailType |-> "flight.delay.major", target |-> "Delay"],
      [id |-> "DelaySevereRule", source |-> KafkaSource,
       detailType |-> "flight.delay.severe", target |-> "Delay"],
      [id |-> "CancellationRule", source |-> KafkaSource,
       detailType |-> "flight.cancelled", target |-> "Cancellation"],
      [id |-> "GateChangeRule", source |-> KafkaSource,
       detailType |-> "flight.gate_change", target |-> "GateChange"] }

\* An event that matches no rule's pattern goes to the cancellation rule.
MatchingRules_CatchAll(ev) ==
    LET m == {r \in Rules : r.source = ev.source /\ r.detailType = ev.detail_type}
    IN  IF m = {} THEN {r \in Rules : r.id = "CancellationRule"} ELSE m

\* The rules whose event pattern (source and detail type) an event matches.
MatchingRules(ev) ==
    {r \in Rules : r.source = ev.source /\ r.detailType = ev.detail_type}

(* ------------------------------- state -------------------------------- *)
VARIABLES
    flights,      \* FLIGHT#f / METADATA records
    bookings,     \* BOOKING#b / METADATA records
    passengers,   \* ids of the PASSENGER#p / METADATA records that exist
    events,       \* trigger events put on the bus, in order
    execs,        \* workflow executions, in start order
    toks,         \* control tokens of the running executions
    calls,        \* invocations of the LLM messenger
    published,    \* events put on the bus by workflows
    reports,      \* messages published to the error topic
    faults,       \* task calls failed by the environment so far
    dlq,          \* messages in the WorkflowDLQ queue
    responses,    \* responses the read API has returned, in order
    stream,       \* records of the table's stream not yet delivered
    handled       \* invocations of the stream handler, in order

vars == <<flights, bookings, passengers, events, execs, toks, calls,
          published, reports, faults, dlq, responses, stream, handled>>

FlightStatuses == {"SCHEDULED", "BOARDING", "DELAYED", "CANCELLED", "DEPARTED", "ARRIVED"}
BookingStatuses == {"CONFIRMED", "CHECKED_IN", "CANCELLED", "NEEDS_REBOOKING"}

InitFlight ==
    [status |-> "SCHEDULED", GSI1PK |-> "SCHEDULED",
     delay_minutes |-> 0, delay_reason |-> "", gate |-> "A1"]

InitBooking(st) == [booking_status |-> st, GSI2PK |-> st]

Init ==
    /\ flights = [f \in FlightIds |-> InitFlight]
    /\ bookings = [b \in BookingIds |-> InitBooking("CONFIRMED")]
    /\ passengers \in {PassengerIds, {"P1"}}
    /\ events = << >>
    /\ execs = << >>
    /\ toks = {}
    /\ calls = << >>
    /\ published = << >>
    /\ reports = << >>
    /\ faults = 0
    /\ dlq = << >>
    /\ responses = << >>
    /\ stream = {}
    /\ handled = << >>

(* --------------------------- token helpers ---------------------------- *)
ExecOf(t) == t.id[1]
IsRoot(t) == Len(t.id) = 1
IsPrefix(a, b) == Len(a) <= Len(b) /\ SubSeq(b, 1, Len(a)) = a
Children(T, t) == {c \in T : Len(c.id) = Len(t.id) + 1 /\ IsPrefix(t.id, c.id)}
Descendants(T, t) == {c \in T : Len(c.id) > Len(t.id) /\ IsPrefix(t.id, c.id)}
Parent(T, t) == CHOOSE q \in T : q.id = SubSeq(t.id, 1, Len(t.id) - 1)
OfExec(T, e) == {c \in T : ExecOf(c) = e}
Index(t) == t.id[Len(t.id)]

TokDef(t) == Def(execs[ExecOf(t)].wf, t.st)
TokInput(t) == execs[ExecOf(t)].input
Ready(t) == t \in toks /\ t.mode = "ready"

\* A finished item frees no slot.
Admit_Never(T, done) == T

\* A Map admits the queued item of lowest index when an item finishes.
Admit(T, done) ==
    LET sibs == {c \in T : Len(c.id) = Len(done.id)
                           /\ IsPrefix(SubSeq(done.id, 1, Len(done.id) - 1), c.id)
                           /\ c.mode = "queued"}
    IN  IF sibs = {} THEN T
        ELSE LET n == CHOOSE c \in sibs : \A o \in sibs : Index(c) <= Index(o)
             IN  (T \ {n}) \cup {[n EXCEPT !.mode = "ready"]}

\* Token t leaves its state with output out: to the successor, or, at the
\* end of a branch or iteration, to "done"; the end of the top level ends
\* the execution in success.
Leave(T, X, t, d, out) ==
    LET T0 == (T \ Descendants(T, t)) \ {t}
    IN  IF d.Next # End
        THEN [toks |-> T0 \cup {[t EXCEPT !.st = d.Next, !.ctx = out, !.mode = "ready"]},
              execs |-> X]
        ELSE IF IsRoot(t)
        THEN [toks |-> T \ OfExec(T, ExecOf(t)),
              execs |-> [X EXCEPT ![ExecOf(t)].status = "SUCCEEDED"]]
        ELSE [toks |-> Admit(T0 \cup {[t EXCEPT !.ctx = out, !.mode = "done"]}, t),
              execs |-> X]

\* An error raised in the state of token t: the state's Catch takes it, else
\* it fails the enclosing Parallel or Map state, else the execution.
RECURSIVE Raise(_, _, _, _)
Raise(T, X, t, err) ==
    LET d == Def(X[ExecOf(t)].wf, t.st)
        T0 == (T \ Descendants(T, t)) \ {t}
    IN  IF d.Catch # NoCatch
        THEN [toks |-> T0 \cup
                 {[t EXCEPT !.st = d.Catch,
                            !.ctx = ApplyResultPath(t.ctx, d.CatchResultPath,
                                        [Error |-> err, Cause |-> err]),
                            !.mode = "ready"]},
              execs |-> X]
        ELSE IF IsRoot(t)
        THEN [toks |-> T \ OfExec(T, ExecOf(t)),
              execs |-> [X EXCEPT ![ExecOf(t)].status = "FAILED",
                                  ![ExecOf(t)].error = err]]
        ELSE Raise(T, X, Parent(T, t), err)

\* The failure stops the tokens of every execution.
Abort_StopsAll(T, X, t) ==
    [toks |-> {},
     execs |-> [X EXCEPT ![ExecOf(t)].status = "FAILED",
                         ![ExecOf(t)].error = "States.Runtime"]]

\* States.Runtime is not matched by any Catch: the execution fails.
Abort(T, X, t) ==
    [toks |-> T \ OfExec(T, ExecOf(t)),
     execs |-> [X EXCEPT ![ExecOf(t)].status = "FAILED",
                         ![ExecOf(t)].error = "States.Runtime"]]

(* ------------------------------ actions ------------------------------- *)
RECURSIVE SetToSeq(_)
SetToSeq(S) ==
    IF S = {} THEN << >>
    ELSE LET x == CHOOSE y \in S : TRUE IN <<x>> \o SetToSeq(S \ {x})

\* The ingestion source puts a trigger event on the bus; every rule whose
\* pattern matches starts one execution of its target state machine, with
\* the event as the execution input.
PublishTrigger(dt, det) ==
    LET ev == [source |-> KafkaSource, detail_type |-> dt, detail |-> det]
        rs == SetToSeq(MatchingRules(ev))
        n  == Len(execs)
    IN  /\ Len(events) < MaxEvents
        /\ events' = Append(events, ev)
        /\ execs' = execs \o
             [i \in 1..Len(rs) |->
                [wf |-> rs[i].target, ev |-> Len(events) + 1, input |-> ev,
                 status |-> "RUNNING", error |-> ""]]
        /\ toks' = toks \cup
             {[id |-> <<n + i>>, st |-> StateMachine(rs[i].target).StartAt,
               ctx |-> ev, mode |-> "ready"] : i \in 1..Len(rs)}
        /\ UNCHANGED <<flights, bookings, passengers, calls, published, reports, faults, dlq, responses, stream, handled>>

\* ADD instead of SET for the numeric attribute.
UpdateItem_AddsDelay(old, vals) ==
    [a \in DOMAIN old |->
        IF a \in (DOMAIN vals) \ {"Key"}
        THEN (IF a = "delay_minutes" THEN old[a] + vals[a] ELSE vals[a])
        ELSE old[a]]

\* SET of the attributes named in an update expression on one item.
UpdateItem(old, vals) ==
    [a \in DOMAIN old |-> IF a \in (DOMAIN vals) \ {"Key"} THEN vals[a] ELSE old[a]]

\* UpdateItem on a table: without a condition expression, a key that has no
\* item gets a new item holding the attributes set.
Upsert(table, vals) ==
    IF vals.Key \in DOMAIN table
    THEN [table EXCEPT ![vals.Key] = UpdateItem(@, vals)]
    ELSE (vals.Key :> [a \in (DOMAIN vals) \ {"Key"} |-> vals[a]]) @@ table

Range(q) == {q[i] : i \in 1..Len(q)}

\* The records the stream handler has been given so far.
Delivered == UNION {Range(handled[i].records) : i \in 1..Len(handled)}

\* An item as it appears in a stream image: its key attributes and its own.
Image(pk, sk, item) ==
    [a \in {"PK", "SK"} \cup DOMAIN item |->
        IF a = "PK" THEN pk ELSE IF a = "SK" THEN sk ELSE item[a]]

\* The position of a new record among the pending records of its item.
NextSeq(S, pk, sk) ==
    LET same == {r \in S : r.Keys.PK = pk /\ r.Keys.SK = sk}
    IN  IF same = {} THEN 1
        ELSE (CHOOSE r \in same : \A o \in same : o.seq <= r.seq).seq + 1

\* The table's stream carries new and old images: an UpdateItem that creates
\* an item yields an INSERT record, one that changes an item a MODIFY record,
\* and one that leaves the item as it was yields no record.
Capture(S, prefix, table, vals) ==
    LET key == vals.Key
        keys == [PK |-> <<prefix, key>>, SK |-> "METADATA"]
        new == Upsert(table, vals)[key]
        n == NextSeq(S, keys.PK, keys.SK)
    IN  IF key \notin DOMAIN table
        THEN {[eventName |-> "INSERT", Keys |-> keys, seq |-> n,
               NewImage |-> Image(keys.PK, keys.SK, new)]}
        ELSE IF table[key] = new THEN {}
        ELSE {[eventName |-> "MODIFY", Keys |-> keys, seq |-> n,
               NewImage |-> Image(keys.PK, keys.SK, new),
               OldImage |-> Image(keys.PK, keys.SK, table[key])]}

\* The result of a task call.
TaskResult(d, vals) ==
    CASE d.Action = "dynamodb:query" ->
            LET items == IF vals.pk \in DOMAIN FlightBookingLookup THEN FlightBookingLookup[vals.pk] ELSE << >>
            IN  [Items |-> items, Count |-> Len(items), ScannedCount |-> Len(items)]
      [] d.Action = "dynamodb:updateItem" -> [SdkHttpMetadata |-> "200"]
      [] d.Action = "dynamodb:getItem" ->
            IF vals.Key \in passengers
            THEN [Item |-> PassengerItem(vals.Key), SdkHttpMetadata |-> "200"]
            ELSE [SdkHttpMetadata |-> "200"]
      [] d.Action = "lambda:invoke" ->
            [Payload |-> [email_subject |-> vals.message_type,
                          email_body |-> vals.message_type,
                          sms_body |-> vals.message_type],
             StatusCode |-> 200]
      [] d.Action = "events:putEvents" -> [FailedEntryCount |-> 0]
      [] OTHER -> [MessageId |-> "m"]

\* A Task state whose parameters resolve runs its call and succeeds.
TaskSucceed(t) ==
    LET d == TokDef(t)
        vals == EvalParams(d.Params, t.ctx, TokInput(t))
        out == ApplyResultPath(t.ctx, d.ResultPath, TaskResult(d, vals))
        nxt == Leave(toks, execs, t, d, out)
    IN  /\ Ready(t)
        /\ d.Type = "Task"
        /\ Resolvable(d.Params, t.ctx, TokInput(t))
        /\ flights' = IF d.Action = "dynamodb:updateItem" /\ d.Table = "FLIGHT"
                      THEN Upsert(flights, vals)
                      ELSE flights
        /\ bookings' = IF d.Action = "dynamodb:updateItem" /\ d.Table = "BOOKING"
                       THEN Upsert(bookings, vals)
                       ELSE bookings
        /\ calls' = IF d.Action = "lambda:invoke"
                    THEN Append(calls, [exec |-> ExecOf(t), params |-> vals,
                                        flights |-> flights, bookings |-> bookings])
                    ELSE calls
        /\ published' = IF d.Action = "events:putEvents"
                        THEN Append(published,
                                [exec |-> ExecOf(t), source |-> d.Source,
                                 detail_type |-> d.DetailType, detail |-> vals])
                        ELSE published
        /\ reports' = IF d.Action = "sns:publish"
                      THEN Append(reports, [exec |-> ExecOf(t), message |-> vals])
                      ELSE reports
        /\ stream' = IF d.Action = "dynamodb:updateItem"
                     THEN stream \cup
                          Capture(stream \cup Delivered, d.Table,
                                  IF d.Table = "FLIGHT" THEN flights ELSE bookings, vals)
                     ELSE stream
        /\ toks' = nxt.toks
        /\ execs' = nxt.execs
        /\ UNCHANGED <<passengers, events, faults, dlq, responses, handled>>

\* The call of a Task state fails (store unavailable, throttling, Lambda
\* error): a States.ALL Catch takes it, else it propagates.
TaskFail(t) ==
    LET d == TokDef(t)
        nxt == Raise(toks, execs, t, "States.TaskFailed")
    IN  /\ Ready(t)
        /\ d.Type = "Task"
        /\ Resolvable(d.Params, t.ctx, TokInput(t))
        /\ faults < MaxFaults
        /\ faults' = faults + 1
        /\ toks' = nxt.toks
        /\ execs' = nxt.execs
        /\ UNCHANGED <<flights, bookings, passengers, events, calls, published, reports, dlq, responses, stream, handled>>

\* The items a Map state iterates over, when its ItemsPath resolves.
MapItems(d, t) == GetPath(t.ctx, d.ItemsPath)

\* A path the state references is not in its input: States.Runtime.
Unresolved(t) ==
    LET d == TokDef(t)
    IN  CASE d.Type = "Task" -> ~Resolvable(d.Params, t.ctx, TokInput(t))
          [] d.Type = "Choice" -> ~HasPath(t.ctx, d.Variable)
          [] d.Type = "Map" ->
                IF ~HasPath(t.ctx, d.ItemsPath) THEN TRUE
                ELSE /\ d.HasParams
                     /\ Len(MapItems(d, t)) > 0
                     /\ ~Resolvable(d.Params, t.ctx, TokInput(t))
          [] OTHER -> FALSE

RuntimeError(t) ==
    LET nxt == Abort(toks, execs, t)
    IN  /\ Ready(t)
        /\ Unresolved(t)
        /\ toks' = nxt.toks
        /\ execs' = nxt.execs
        /\ UNCHANGED <<flights, bookings, passengers, events, calls, published, reports, faults, dlq, responses, stream, handled>>

Holds(d, v) ==
    IF d.Op = "NumericGreaterThan" THEN v > d.Value ELSE v = d.Value

ChoiceStep(t) ==
    LET d == TokDef(t)
    IN  /\ Ready(t)
        /\ d.Type = "Choice"
        /\ HasPath(t.ctx, d.Variable)
        /\ toks' = (toks \ {t}) \cup
              {[t EXCEPT !.st = IF Holds(d, GetPath(t.ctx, d.Variable))
                                THEN d.Then ELSE d.Default]}
        /\ UNCHANGED <<flights, bookings, passengers, events, execs, calls, published, reports, faults, dlq, responses, stream, handled>>

\* Pass and Succeed states do no work.
NoOpStep(t) ==
    LET d == TokDef(t)
        nxt == Leave(toks, execs, t, d, t.ctx)
    IN  /\ Ready(t)
        /\ d.Type \in {"Pass", "Succeed"}
        /\ toks' = nxt.toks
        /\ execs' = nxt.execs
        /\ UNCHANGED <<flights, bookings, passengers, events, calls, published, reports, faults, dlq, responses, stream, handled>>

\* A Parallel state starts every branch on its own copy of the input.
StartParallel(t) ==
    LET d == TokDef(t)
    IN  /\ Ready(t)
        /\ d.Type = "Parallel"
        /\ toks' = ((toks \ {t}) \cup {[t EXCEPT !.mode = "wait"]}) \cup
              {[id |-> Append(t.id, i), st |-> d.Branches[i], ctx |-> t.ctx,
                mode |-> "ready"] : i \in 1..Len(d.Branches)}
        /\ UNCHANGED <<flights, bookings, passengers, events, execs, calls, published, reports, faults, dlq, responses, stream, handled>>

\* Every item of the Map is released at once.
StartMap_AllReady(t) ==
    LET d == TokDef(t)
        items == MapItems(d, t)
    IN  /\ Ready(t)
        /\ d.Type = "Map"
        /\ ~Unresolved(t)
        /\ toks' = ((toks \ {t}) \cup {[t EXCEPT !.mode = "wait"]}) \cup
              {[id |-> Append(t.id, i), st |-> d.Iterator,
                ctx |-> IF d.HasParams
                        THEN EvalParams(d.Params, t.ctx, TokInput(t))
                        ELSE items[i],
                mode |-> "ready"]
               : i \in 1..Len(items)}
        /\ UNCHANGED <<flights, bookings, passengers, events, execs, calls, published, reports, faults, dlq, responses, stream, handled>>

\* A Map state starts one iteration per item, at most MaxConcurrency at a
\* time; the others queue.
StartMap(t) ==
    LET d == TokDef(t)
        items == MapItems(d, t)
    IN  /\ Ready(t)
        /\ d.Type = "Map"
        /\ ~Unresolved(t)
        /\ toks' = ((toks \ {t}) \cup {[t EXCEPT !.mode = "wait"]}) \cup
              {[id |-> Append(t.id, i), st |-> d.Iterator,
                ctx |-> IF d.HasParams
                        THEN EvalParams(d.Params, t.ctx, TokInput(t))
                        ELSE items[i],
                mode |-> IF i <= d.MaxConcurrency THEN "ready" ELSE "queued"]
               : i \in 1..Len(items)}
        /\ UNCHANGED <<flights, bookings, passengers, events, execs, calls, published, reports, faults, dlq, responses, stream, handled>>

\* The state completes as soon as one branch or iteration is done.
Join_OnFirstDone(t) ==
    LET d == TokDef(t)
        cs == Children(toks, t)
        ds == {c \in cs : c.mode = "done"}
        outs == SetToSeq({c.ctx : c \in ds})
        out == IF d.ResultPath = "$" THEN ArrayCtx(outs)
               ELSE ApplyResultPath(t.ctx, d.ResultPath, outs)
        nxt == Leave(toks, execs, t, d, out)
    IN  /\ t \in toks
        /\ t.mode = "wait"
        /\ ds # {}
        /\ toks' = nxt.toks
        /\ execs' = nxt.execs
        /\ UNCHANGED <<flights, bookings, passengers, events, calls, published, reports, faults, dlq, responses, stream, handled>>

\* A Parallel or Map state completes when every branch or iteration is done;
\* its result is the array of their outputs.
Join(t) ==
    LET d == TokDef(t)
        cs == Children(toks, t)
        outs == [i \in 1..Cardinality(cs) |-> (CHOOSE c \in cs : Index(c) = i).ctx]
        out == IF d.ResultPath = "$" THEN ArrayCtx(outs)
               ELSE ApplyResultPath(t.ctx, d.ResultPath, outs)
        nxt == Leave(toks, execs, t, d, out)
    IN  /\ t \in toks
        /\ t.mode = "wait"
        /\ \A c \in cs : c.mode = "done"
        /\ toks' = nxt.toks
        /\ execs' = nxt.execs
        /\ UNCHANGED <<flights, bookings, passengers, events, calls, published, reports, faults, dlq, responses, stream, handled>>

Next ==
    \/ \E dt \in TriggerTypes : \E det \in Details(dt) : PublishTrigger(dt, det)
    \/ \E t \in toks : TaskSucceed(t)
    \/ \E t \in toks : TaskFail(t)
    \/ \E t \in toks : RuntimeError(t)
    \/ \E t \in toks : ChoiceStep(t)
    \/ \E t \in toks : NoOpStep(t)
    \/ \E t \in toks : StartParallel(t)
    \/ \E t \in toks : StartMap(t)
    \/ \E t \in toks : Join(t)

Spec == Init /\ [][Next]_vars

(* ------------------------- properties: helpers ------------------------ *)
ExecIds == 1..Len(execs)
Ended(e) == execs[e].status # "RUNNING"
FlightOf(e) == execs[e].input.detail.flight_id
ItemsOf(e) == FlightBookingLookup[FlightOf(e)]
BookingsOf(e) == {ItemsOf(e)[i].booking_id : i \in 1..Len(ItemsOf(e))}
CallsOf(e) == {i \in 1..Len(calls) : calls[i].exec = e}
ReportsOf(e) == {i \in 1..Len(reports) : reports[i].exec = e}
PublishedOf(e, dt) ==
    {i \in 1..Len(published) : published[i].exec = e /\ published[i].detail_type = dt}
ExpectedWorkflow(dt) ==
    IF dt \in DelayTypes THEN "Delay"
    ELSE IF dt = "flight.cancelled" THEN "Cancellation"
    ELSE "GateChange"
ExecsOfEvent(i) == {e \in ExecIds : execs[e].ev = i}
\* A run in which the environment fails no call and every passenger exists.
FaultFree == faults = 0 /\ passengers = PassengerIds

(* C1: every trigger event of the five trigger detail types starts exactly
   one execution, and it is an execution of the workflow for that type. *)
C1_OneWorkflowPerTrigger ==
    \A i \in 1..Len(events) :
        /\ Cardinality(ExecsOfEvent(i)) = 1
        /\ \A e \in ExecsOfEvent(i) :
              execs[e].wf = ExpectedWorkflow(events[i].detail_type)

C1_Witness ==
    /\ Len(events) = 2
    /\ events[1].detail_type = "flight.delay.severe"
    /\ events[2].detail_type = "flight.gate_change"
    /\ Len(execs) = 2
    /\ execs[1].wf = "Delay"
    /\ execs[2].wf = "GateChange"

(* C2: an execution that has ended in failure has at least one Failure
   Report on the error topic. *)
C2_FailureIsReported ==
    \A e \in ExecIds : execs[e].status = "FAILED" => ReportsOf(e) # {}

(* C3: a Delay execution for a flight of M bookings of which exactly one has
   no passenger record ends with the other M-1 items processed (generator
   called, notifications published by preference) and exactly one report. *)
C3_PartialFailureIsolated ==
    \A e \in ExecIds :
        ( /\ execs[e].wf = "Delay"
          /\ Ended(e)
          /\ Len(execs) = 1
          /\ faults = 0
          /\ FlightOf(e) = "F1"
          /\ passengers = {"P1"} )
        => /\ Cardinality(CallsOf(e)) = Len(ItemsOf(e)) - 1
           /\ Cardinality(PublishedOf(e, "notification.email")) = 1
           /\ Cardinality(PublishedOf(e, "notification.sms")) = 0
           /\ Cardinality(ReportsOf(e)) = 1

AllMarked(bk, e) ==
    \A b \in BookingsOf(e) : bk[b].booking_status = "NEEDS_REBOOKING"

AfterMarking ==
    (DOMAIN createProcessBookingsMap("CANCELLATION_NOTIFICATION", End))
        \cup {"UpdateFlightStatus", "WorkflowComplete"}

(* C4: in a Cancellation execution, once control is at ProcessBookings or
   any later state, and at every generator call, every booking of the
   flight has booking_status NEEDS_REBOOKING. *)
C4_MarkedBeforeProcessing ==
    /\ \A t \in toks :
          (execs[ExecOf(t)].wf = "Cancellation" /\ t.st \in AfterMarking)
              => AllMarked(bookings, ExecOf(t))
    /\ \A i \in 1..Len(calls) :
          execs[calls[i].exec].wf = "Cancellation"
              => AllMarked(calls[i].bookings, calls[i].exec)

C4_Witness ==
    \E t \in toks :
        /\ execs[ExecOf(t)].wf = "Cancellation"
        /\ t.st = "ProcessBookingsInParallel"
        /\ t.mode = "ready"
        /\ Len(ItemsOf(ExecOf(t))) = 2
        /\ AllMarked(bookings, ExecOf(t))

(* C5: every state an execution reaches can read the fields it references:
   the trigger payload and the outputs of prior steps are still in its
   input. *)
C5_ContextPreserved ==
    \A t \in toks : t.mode = "ready" => ~Unresolved(t)

(* C6: a fault-free Delay execution for a flight with k bookings ends in
   success with the Flight DELAYED, delay_minutes and delay_reason those of
   the trigger, and k generator calls. *)
C6_DelayScenario ==
    \A e \in ExecIds :
        (execs[e].wf = "Delay" /\ Ended(e) /\ Len(execs) = 1 /\ FaultFree)
        => /\ execs[e].status = "SUCCEEDED"
           /\ flights[FlightOf(e)].status = "DELAYED"
           /\ flights[FlightOf(e)].delay_minutes = execs[e].input.detail.delay_minutes
           /\ flights[FlightOf(e)].delay_reason = execs[e].input.detail.reason
           /\ Cardinality(CallsOf(e)) = Len(ItemsOf(e))

(* C7: a fault-free Cancellation execution for a flight with k bookings ends
   in success with all k bookings NEEDS_REBOOKING, the Flight CANCELLED and
   k generator calls of type CANCELLATION_NOTIFICATION. *)
C7_CancellationScenario ==
    \A e \in ExecIds :
        (execs[e].wf = "Cancellation" /\ Ended(e) /\ Len(execs) = 1 /\ FaultFree)
        => /\ execs[e].status = "SUCCEEDED"
           /\ AllMarked(bookings, e)
           /\ flights[FlightOf(e)].status = "CANCELLED"
           /\ Cardinality(CallsOf(e)) = Len(ItemsOf(e))
           /\ \A i \in CallsOf(e) :
                 calls[i].params.message_type = "CANCELLATION_NOTIFICATION"

(* C8: in a Gate-Change execution the gate is the event's new_gate at every
   generator call, and a fault-free execution ends in success with the gate
   equal to new_gate and one GATE_CHANGE_NOTIFICATION call per booking. *)
C8_GateChangeScenario ==
    /\ \A i \in 1..Len(calls) :
          (execs[calls[i].exec].wf = "GateChange" /\ Len(execs) = 1)
          => calls[i].flights[FlightOf(calls[i].exec)].gate
                = execs[calls[i].exec].input.detail.new_gate
    /\ \A e \in ExecIds :
          (execs[e].wf = "GateChange" /\ Ended(e) /\ Len(execs) = 1 /\ FaultFree)
          => /\ execs[e].status = "SUCCEEDED"
             /\ flights[FlightOf(e)].gate = execs[e].input.detail.new_gate
             /\ Cardinality(CallsOf(e)) = Len(ItemsOf(e))
             /\ \A i \in CallsOf(e) :
                   calls[i].params.message_type = "GATE_CHANGE_NOTIFICATION"

(* C9: every Flight's status equals its GSI1PK and every Booking's
   booking_status equals its GSI2PK, in every reachable state. *)
C9_IndexKeysInStep ==
    /\ \A f \in FlightIds : flights[f].status = flights[f].GSI1PK
    /\ \A b \in BookingIds : bookings[b].booking_status = bookings[b].GSI2PK

C9_Witness ==
    /\ bookings["B1"].booking_status = "NEEDS_REBOOKING"
    /\ bookings["B1"].GSI2PK = "NEEDS_REBOOKING"
    /\ bookings["B2"].booking_status = "CONFIRMED"

(* ---------------- the UpdateFlightStatus write on its own -------------- *)
\* Flight records as the seeding path leaves them: any status, with the
\* status index key equal to it.
SeededFlights ==
    {[status |-> st, GSI1PK |-> st, delay_minutes |-> m, delay_reason |-> r,
      gate |-> "A1"] :
        st \in FlightStatuses, m \in {0, 25}, r \in {"", "CREW"}}

InitUpdate ==
    /\ flights \in [FlightIds -> SeededFlights]
    /\ bookings = [b \in BookingIds |-> InitBooking("CONFIRMED")]
    /\ passengers = PassengerIds
    /\ events = << >>
    /\ execs = << >>
    /\ toks = {}
    /\ calls = << >>
    /\ published = << >>
    /\ reports = << >>
    /\ faults = 0
    /\ dlq = << >>
    /\ responses = << >>
    /\ stream = {}
    /\ handled = << >>

\* The Delay write carries a condition: it leaves a CANCELLED flight alone.
RunDelayUpdateFlight_UnlessCancelled(dt, det) ==
    LET ev == [source |-> KafkaSource, detail_type |-> dt, detail |-> det]
        vals == EvalParams(DelayUpdateFlight.Params, ev, ev)
    IN  /\ Len(events) < MaxEvents
        /\ events' = Append(events, ev)
        /\ flights' = IF flights[vals.Key].status = "CANCELLED" THEN flights
                      ELSE [flights EXCEPT ![vals.Key] = UpdateItem(@, vals)]
        /\ UNCHANGED <<bookings, passengers, execs, toks, calls, published, reports, faults, dlq, responses, stream, handled>>

\* The Delay workflow's UpdateFlightStatus call with the trigger event as
\* its state input.
RunDelayUpdateFlight(dt, det) ==
    LET ev == [source |-> KafkaSource, detail_type |-> dt, detail |-> det]
        vals == EvalParams(DelayUpdateFlight.Params, ev, ev)
    IN  /\ Len(events) < MaxEvents
        /\ events' = Append(events, ev)
        /\ flights' = [flights EXCEPT ![vals.Key] = UpdateItem(@, vals)]
        /\ UNCHANGED <<bookings, passengers, execs, toks, calls, published, reports, faults, dlq, responses, stream, handled>>

DelayReasons == {"WEATHER", "CREW"}

DelayPayloads(dt) ==
    [flight_id : FlightIds, delay_minutes : DelayMinutes(dt), reason : DelayReasons]

NextUpdate ==
    \E dt \in DelayTypes : \E det \in DelayPayloads(dt) : RunDelayUpdateFlight(dt, det)

SpecUpdate == InitUpdate /\ [][NextUpdate]_vars

(* C10: a second Delay write with the payload of the one before it leaves
   the flight records (status, delay_minutes, delay_reason, GSI1PK) as the
   first left them. *)
C10_DelayWriteIdempotent ==
    [][ ( /\ Len(events) >= 1
          /\ events' = Append(events, events[Len(events)]) )
        => flights' = flights ]_vars

C10_Witness ==
    /\ Len(events) = 2
    /\ events[1] = events[2]
    /\ events[1].detail.delay_minutes = 90
    /\ flights[events[1].detail.flight_id].status = "DELAYED"
    /\ flights[events[1].detail.flight_id].GSI1PK = "DELAYED"
    /\ flights[events[1].detail.flight_id].delay_minutes = 90
    /\ flights[events[1].detail.flight_id].delay_reason = "WEATHER"

EventsFor(f) == {i \in 1..Len(events) : events[i].detail.flight_id = f}

(* C15: when Delay writes with different payloads hit the same flight, the
   flight's status, delay_minutes, delay_reason and GSI1PK are in every
   state those of ONE of the writes: values of two payloads, or of a payload
   and the earlier record, are never mixed. *)
C15_FieldsFromOneWrite ==
    \A f \in FlightIds :
        EventsFor(f) # {} =>
            \E i \in EventsFor(f) :
                /\ flights[f].status = "DELAYED"
                /\ flights[f].GSI1PK = "DELAYED"
                /\ flights[f].delay_minutes = events[i].detail.delay_minutes
                /\ flights[f].delay_reason = events[i].detail.reason

C15_Witness ==
    /\ Len(events) = 2
    /\ events[1].detail.flight_id = "F1"
    /\ events[2].detail.flight_id = "F1"
    /\ events[1].detail.delay_minutes = 25
    /\ events[1].detail.reason = "CREW"
    /\ events[2].detail.delay_minutes = 150
    /\ events[2].detail.reason = "WEATHER"
    /\ flights["F1"].delay_minutes = 150
    /\ flights["F1"].delay_reason = "WEATHER"
    /\ flights["F1"].status = "DELAYED"

(* ------------- a Map state over more items than it runs at once -------- *)
InitMap ==
    /\ flights = [f \in {BulkFlight} |-> InitFlight]
    /\ bookings = [b \in {BulkBookingIds[i] : i \in 1..Len(BulkBookingIds)} |->
                     InitBooking("CONFIRMED")]
    /\ passengers = PassengerIds
    /\ events = << >>
    /\ execs = << >>
    /\ toks = {}
    /\ calls = << >>
    /\ published = << >>
    /\ reports = << >>
    /\ faults = 0
    /\ dlq = << >>
    /\ responses = << >>
    /\ stream = {}
    /\ handled = << >>

\* One cancellation of the bulk flight.
PublishBulkCancellation(reason) ==
    /\ events = << >>
    /\ PublishTrigger("flight.cancelled", [flight_id |-> BulkFlight, reason |-> reason])

NextMap ==
    \/ \E r \in {"WEATHER", "CREW"} : PublishBulkCancellation(r)
    \/ \E t \in toks : TaskSucceed(t)
    \/ \E t \in toks : TaskFail(t)
    \/ \E t \in toks : RuntimeError(t)
    \/ \E t \in toks : StartMap(t)
    \/ \E t \in toks : Join(t)

\* The service runs every state that is ready to run.
SpecMap == InitMap /\ [][NextMap]_vars /\ WF_vars(NextMap)

\* The iterations of a Map state that are running.
InFlight(T, t) == {c \in Children(T, t) : c.mode \in {"ready", "wait"}}

MapTokens(T) == {t \in T : t.mode = "wait" /\ Def(execs[ExecOf(t)].wf, t.st).Type = "Map"}

AtMostMaxConcurrency ==
    \A t \in MapTokens(toks) : Cardinality(InFlight(toks, t)) <= MaxConcurrency

\* A queued iteration leaves the queue only in a step in which a running
\* iteration of the same Map finishes.
AdmittedOnFinish ==
    \A c \in toks :
        ( /\ c.mode = "queued"
          /\ \E c2 \in toks' : c2.id = c.id /\ c2.mode # "queued" )
        => \E s \in toks :
              /\ Len(s.id) = Len(c.id)
              /\ IsPrefix(SubSeq(c.id, 1, Len(c.id) - 1), s.id)
              /\ s.mode \in {"ready", "wait"}
              /\ \E s2 \in toks' : s2.id = s.id /\ s2.mode = "done"

MarkMapEntered ==
    \E t \in toks : t.st = "MarkBookingsForRebooking" /\ t.mode = "wait"

ItemStarted(i) ==
    \E c \in toks : c.id = <<1, i>> /\ c.st = "UpdateBookingStatus" /\ c.mode # "queued"

BulkFailed == Len(execs) = 1 /\ execs[1].status = "FAILED"

(* C11 as stated: a Map over more than MaxConcurrency items never runs more
   than MaxConcurrency iterations at once, a queued iteration starts only
   when a running one finishes, and every item is eventually started. *)
C11_Original ==
    /\ []AtMostMaxConcurrency
    /\ [][AdmittedOnFinish]_vars
    /\ \A i \in 1..(MaxConcurrency + 1) : (MarkMapEntered ~> ItemStarted(i))

(* C11: a Map over more than MaxConcurrency items never runs more than
   MaxConcurrency iterations at once, a queued iteration starts only when a
   running one finishes, and every item is eventually started unless an
   iteration fails first, which fails the Map state and the execution. *)
C11_MapConcurrency ==
    /\ []AtMostMaxConcurrency
    /\ [][AdmittedOnFinish]_vars
    /\ \A i \in 1..(MaxConcurrency + 1) :
          (MarkMapEntered ~> (ItemStarted(i) \/ BulkFailed))

C11_Witness ==
    /\ MarkMapEntered
    /\ \E t \in MapTokens(toks) : Cardinality(InFlight(toks, t)) = MaxConcurrency
    /\ ItemStarted(MaxConcurrency + 1)
    /\ \E c \in toks : c.id = <<1, 1>> /\ c.mode = "done"
    /\ faults = 0

(* --------------------- properties of the workflows -------------------- *)
PublishedTo(e, dt, addr) ==
    {i \in PublishedOf(e, dt) : published[i].detail.to = addr}

(* C12: for every booking item of an ended fault-free execution,
   notification.email is published exactly once if the passenger's email
   preference is true and never otherwise, and notification.sms exactly
   once if the sms preference is true and never otherwise. *)
C12_NotificationsByPreference ==
    \A e \in ExecIds :
        (Ended(e) /\ FaultFree) =>
            \A i \in 1..Len(ItemsOf(e)) :
                LET p == PassengerItem(ItemsOf(e)[i].passenger_id)
                IN  /\ Cardinality(PublishedTo(e, "notification.email", p.email))
                          = IF p.notification_preferences.email THEN 1 ELSE 0
                    /\ Cardinality(PublishedTo(e, "notification.sms", p.phone))
                          = IF p.notification_preferences.sms THEN 1 ELSE 0

(* C13: when a Catch has handed control to the Failure Reporter, every field
   the reporter reads is in the state it received, that state still holds
   the original trigger payload, and every published report names the step
   that failed. *)
C13_ReporterInputComplete ==
    /\ \A t \in toks :
          (t.st = "NotifyDelayFailure" /\ t.mode = "ready")
          => /\ Resolvable(TokDef(t).Params, t.ctx, TokInput(t))
             /\ HasPath(t.ctx, <<"detail">>)
    /\ \A i \in 1..Len(reports) : "step" \in DOMAIN reports[i].message

\* Execution e takes part in the step.
Changed(e) ==
    \/ OfExec(toks', e) # OfExec(toks, e)
    \/ execs'[e] # execs[e]

(* C16: a step of one execution, its failure included, leaves every other
   execution's control state and status as they were, writes only records
   of its own flight, and publishes only in its own name; so an execution
   for another flight proceeds exactly as it would alone. *)
C16_ExecutionsIsolated ==
    [][ \A e \in ExecIds :
          Changed(e) =>
            /\ \A o \in ExecIds \ {e} : ~Changed(o)
            /\ \A f \in DOMAIN flights : flights'[f] # flights[f] => f = FlightOf(e)
            /\ \A b \in DOMAIN bookings :
                  bookings'[b] # bookings[b] => b \in BookingsOf(e)
            /\ \A i \in (1..Len(published')) \ (1..Len(published)) :
                  published'[i].exec = e
            /\ \A i \in (1..Len(reports')) \ (1..Len(reports)) :
                  reports'[i].exec = e ]_vars

C16_Witness ==
    /\ Len(execs) = 2
    /\ FlightOf(1) = "F2"
    /\ execs[1].status = "FAILED"
    /\ execs[1].error = "States.TaskFailed"
    /\ execs[2].wf = "Cancellation"
    /\ FlightOf(2) = "F1"
    /\ Ended(2)
    /\ AllMarked(bookings, 2)

(* C18: every execution that has failed has a message in the WorkflowDLQ. *)
C18_FailureInDLQ ==
    \A e \in ExecIds :
        execs[e].status = "FAILED" => \E i \in 1..Len(dlq) : dlq[i].exec = e

CallsFor(e, p) ==
    {c \in CallsOf(e) : calls[c].params.passenger.passenger_id = p}

(* C19: every booking item of an ended fault-free execution has had exactly
   one generator call, made with the passenger record GetPassengerDetails
   fetched, and every notification published for a passenger follows the
   generator call for that passenger. *)
C19_ItemStepsInOrder ==
    /\ \A e \in ExecIds :
          (Ended(e) /\ FaultFree) =>
              \A i \in 1..Len(ItemsOf(e)) :
                  Cardinality(CallsFor(e, ItemsOf(e)[i].passenger_id)) = 1
    /\ \A j \in 1..Len(published) :
          \E c \in CallsOf(published[j].exec) :
              published[j].detail.to \in
                  {calls[c].params.passenger.email, calls[c].params.passenger.phone}

BookingProcessingStates ==
    {"CheckBookingsExist", "NoBookingsFound"}
        \cup DOMAIN createProcessBookingsMap("DELAY_NOTIFICATION", End)

(* C20: in a Delay execution, UpdateFlightStatus is ready to run only when
   the booking processing of that execution has completed. *)
C20_UpdateAfterProcessing ==
    \A t \in toks :
        ( /\ execs[ExecOf(t)].wf = "Delay"
          /\ t.st = "UpdateFlightStatus"
          /\ t.mode = "ready" )
        => \A o \in OfExec(toks, ExecOf(t)) :
              o.st \in BookingProcessingStates => o.mode = "done"

(* ------------------------------ read API ------------------------------ *)
Methods == {"GET", "POST"}

\* Request paths, as their segments.
ApiPaths ==
    { <<"health">>, <<"flights">>, <<"status">>,
      <<"flights", "F1">>, <<"flights", "X">>, <<"flights", "F1", "bookings">>,
      <<"passengers", "P1">>, <<"passengers", "P2">>, <<"passengers", "X">>,
      <<"passengers", "P1", "bookings">>,
      <<"bookings", "B1">>, <<"bookings", "X">> }

\* The status query parameter; "" is its absence.
ApiRequests ==
    { [path |-> pa, method |-> "GET", status |-> ""] : pa \in ApiPaths }
    \cup { [path |-> <<"flights">>, method |-> "GET", status |-> "SCHEDULED"] }
    \cup { [path |-> <<"passengers", "P1">>, method |-> m, status |-> ""] : m \in Methods }

Response(code, body) == [statusCode |-> code, body |-> body]

\* The passenger record with both contact fields left in.
safeData_KeepsPhone(item) ==
    [k \in (DOMAIN item) \ {"email"} |-> item[k]]

\* const { email, phone, ...safeData } = result.Item
safeData(item) ==
    [k \in (DOMAIN item) \ {"email", "phone"} |-> item[k]]

FlightRecord(f) == ("flight_id" :> f) @@ flights[f]
BookingRecord(b) == ("booking_id" :> b) @@ bookings[b]

\* The status parameter is tested after the store has been queried.
handler_QueriesFirst(req, storeUp) ==
    LET path == req.path
        get == req.method = "GET"
        id == IF Len(path) >= 2 THEN path[2] ELSE ""
        failed == Response(500, [error |-> "store"])
    IN  IF path = <<"health">> /\ get
        THEN Response(200, [status |-> "healthy", service |-> "flightpulse-api"])
        ELSE IF Len(path) = 2 /\ path[1] = "flights" /\ get
        THEN IF ~storeUp THEN failed
             ELSE IF id \notin DOMAIN flights
             THEN Response(404, [error |-> "Flight not found"])
             ELSE Response(200,
                    [flight_id |-> id,
                     status |-> flights[id].status,
                     gate |-> flights[id].gate,
                     delay_minutes |-> flights[id].delay_minutes,
                     delay_reason |-> flights[id].delay_reason])
        ELSE IF path = <<"flights">> /\ get
        THEN IF ~storeUp THEN failed
             ELSE IF req.status = ""
             THEN Response(400, [error |-> "status query parameter required"])
             ELSE LET fs == SetToSeq({f \in DOMAIN flights :
                                        flights[f].GSI1PK = req.status})
                  IN  Response(200,
                        [flights |-> [i \in 1..Len(fs) |-> FlightRecord(fs[i])],
                         count |-> Len(fs)])
        ELSE IF Len(path) = 3 /\ path[1] = "flights" /\ path[3] = "bookings" /\ get
        THEN IF ~storeUp THEN failed
             ELSE LET items == IF id \in DOMAIN FlightBookingLookup
                               THEN FlightBookingLookup[id] ELSE << >>
                  IN  Response(200,
                        [bookings |-> [i \in 1..Len(items) |->
                            [booking_id |-> items[i].booking_id,
                             passenger_id |-> items[i].passenger_id]],
                         count |-> Len(items)])
        ELSE IF Len(path) = 2 /\ path[1] = "passengers" /\ get
        THEN IF ~storeUp THEN failed
             ELSE IF id \notin passengers
             THEN Response(404, [error |-> "Passenger not found"])
             ELSE Response(200, safeData(PassengerItem(id)))
        ELSE IF Len(path) = 3 /\ path[1] = "passengers" /\ path[3] = "bookings" /\ get
        THEN IF ~storeUp THEN failed
             ELSE LET items == IF id \in DOMAIN PassengerBookingLookup
                               THEN PassengerBookingLookup[id] ELSE << >>
                  IN  Response(200,
                        [bookings |-> [i \in 1..Len(items) |->
                            [booking_id |-> items[i].booking_id,
                             flight_id |-> items[i].flight_id]],
                         count |-> Len(items)])
        ELSE IF Len(path) = 2 /\ path[1] = "bookings" /\ get
        THEN IF ~storeUp THEN failed
             ELSE IF id \notin DOMAIN bookings
             THEN Response(404, [error |-> "Booking not found"])
             ELSE Response(200, BookingRecord(id))
        ELSE Response(404, [error |-> "Not found"])

\* The routes of the handler, in the order it tests them.  storeUp is false
\* when the store call of the route throws.
handler(req, storeUp) ==
    LET path == req.path
        get == req.method = "GET"
        id == IF Len(path) >= 2 THEN path[2] ELSE ""
        failed == Response(500, [error |-> "store"])
    IN  IF path = <<"health">> /\ get
        THEN Response(200, [status |-> "healthy", service |-> "flightpulse-api"])
        ELSE IF Len(path) = 2 /\ path[1] = "flights" /\ get
        THEN IF ~storeUp THEN failed
             ELSE IF id \notin DOMAIN flights
             THEN Response(404, [error |-> "Flight not found"])
             ELSE Response(200,
                    [flight_id |-> id,
                     status |-> flights[id].status,
                     gate |-> flights[id].gate,
                     delay_minutes |-> flights[id].delay_minutes,
                     delay_reason |-> flights[id].delay_reason])
        ELSE IF path = <<"flights">> /\ get
        THEN IF req.status = ""
             THEN Response(400, [error |-> "status query parameter required"])
             ELSE IF ~storeUp THEN failed
             ELSE LET fs == SetToSeq({f \in DOMAIN flights :
                                        flights[f].GSI1PK = req.status})
                  IN  Response(200,
                        [flights |-> [i \in 1..Len(fs) |-> FlightRecord(fs[i])],
                         count |-> Len(fs)])
        ELSE IF Len(path) = 3 /\ path[1] = "flights" /\ path[3] = "bookings" /\ get
        THEN IF ~storeUp THEN failed
             ELSE LET items == IF id \in DOMAIN FlightBookingLookup
                               THEN FlightBookingLookup[id] ELSE << >>
                  IN  Response(200,
                        [bookings |-> [i \in 1..Len(items) |->
                            [booking_id |-> items[i].booking_id,
                             passenger_id |-> items[i].passenger_id]],
                         count |-> Len(items)])
        ELSE IF Len(path) = 2 /\ path[1] = "passengers" /\ get
        THEN IF ~storeUp THEN failed
             ELSE IF id \notin passengers
             THEN Response(404, [error |-> "Passenger not found"])
             ELSE Response(200, safeData(PassengerItem(id)))
        ELSE IF Len(path) = 3 /\ path[1] = "passengers" /\ path[3] = "bookings" /\ get
        THEN IF ~storeUp THEN failed
             ELSE LET items == IF id \in DOMAIN PassengerBookingLookup
                               THEN PassengerBookingLookup[id] ELSE << >>
                  IN  Response(200,
                        [bookings |-> [i \in 1..Len(items) |->
                            [booking_id |-> items[i].booking_id,
                             flight_id |-> items[i].flight_id]],
                         count |-> Len(items)])
        ELSE IF Len(path) = 2 /\ path[1] = "bookings" /\ get
        THEN IF ~storeUp THEN failed
             ELSE IF id \notin DOMAIN bookings
             THEN Response(404, [error |-> "Booking not found"])
             ELSE Response(200, BookingRecord(id))
        ELSE Response(404, [error |-> "Not found"])

ApiRequest(req, storeUp) ==
    /\ Len(responses) < MaxRequests
    /\ responses' = Append(responses, [req |-> req, storeUp |-> storeUp,
                                       response |-> handler(req, storeUp)])
    /\ UNCHANGED <<flights, bookings, passengers, events, execs, toks, calls, published, reports, faults, dlq, stream, handled>>

InitApi ==
    /\ flights \in [FlightIds -> {InitFlight, [InitFlight EXCEPT !.status = "DELAYED", !.GSI1PK = "DELAYED"]}]
    /\ bookings = [b \in BookingIds |-> InitBooking("CONFIRMED")]
    /\ passengers \in {PassengerIds, {"P1"}}
    /\ events = << >>
    /\ execs = << >>
    /\ toks = {}
    /\ calls = << >>
    /\ published = << >>
    /\ reports = << >>
    /\ faults = 0
    /\ dlq = << >>
    /\ responses = << >>
    /\ stream = {}
    /\ handled = << >>

NextApi ==
    \E req \in ApiRequests : \E storeUp \in BOOLEAN : ApiRequest(req, storeUp)

SpecApi == InitApi /\ [][NextApi]_vars

\* The field names of a response body and of the records in its lists.
BodyFields(body) ==
    (DOMAIN body)
    \cup (IF "flights" \in DOMAIN body
          THEN UNION {DOMAIN body.flights[i] : i \in 1..Len(body.flights)} ELSE {})
    \cup (IF "bookings" \in DOMAIN body
          THEN UNION {DOMAIN body.bookings[i] : i \in 1..Len(body.bookings)} ELSE {})

IsPassengerRoute(req) ==
    Len(req.path) = 2 /\ req.path[1] = "passengers" /\ req.method = "GET"

(* C17: no response of the read API carries an email or phone field; the
   passenger route returns the stored record without those two fields, and
   no other route returns a passenger record. *)
C17_NoContactInResponses ==
    \A i \in 1..Len(responses) :
        LET req == responses[i].req
            res == responses[i].response
        IN  /\ BodyFields(res.body) \cap {"email", "phone"} = {}
            /\ (IsPassengerRoute(req) /\ res.statusCode = 200)
                  => /\ DOMAIN res.body = (DOMAIN PassengerItem(req.path[2])) \ {"email", "phone"}
                     /\ \A k \in DOMAIN res.body : res.body[k] = PassengerItem(req.path[2])[k]
            /\ "notification_preferences" \in BodyFields(res.body) => IsPassengerRoute(req)

C17_Witness ==
    \E i \in 1..Len(responses) :
        /\ responses[i].req.path = <<"passengers", "P2">>
        /\ responses[i].response.statusCode = 200
        /\ responses[i].response.body.passenger_id = "P2"
        /\ responses[i].response.body.notification_preferences.sms

(* ----------------- properties of the workflows, continued ------------- *)
DelayWritten(e) ==
    /\ flights[FlightOf(e)].status = "DELAYED"
    /\ flights[FlightOf(e)].delay_minutes = execs[e].input.detail.delay_minutes
    /\ flights[FlightOf(e)].delay_reason = execs[e].input.detail.reason

(* C21: a fault-free Delay execution leaves the Flight DELAYED with the
   event's delay_minutes and reason whatever the number of bookings; with
   zero bookings it makes no generator call and publishes nothing, with one
   or more it makes the generator calls of ProcessBookings. *)
C21_UpdateWhateverTheCount ==
    \A e \in ExecIds :
        (execs[e].wf = "Delay" /\ Ended(e) /\ Len(execs) = 1 /\ FaultFree)
        => /\ DelayWritten(e)
           /\ flights[FlightOf(e)].GSI1PK = "DELAYED"
           /\ Len(ItemsOf(e)) = 0 =>
                 (CallsOf(e) = {} /\ \A i \in 1..Len(published) : published[i].exec # e)
           /\ Len(ItemsOf(e)) > 0 => CallsOf(e) # {}

ReachedSuccess(e) ==
    \/ execs[e].status = "SUCCEEDED"
    \/ \E t \in toks : ExecOf(t) = e /\ t.st = "WorkflowComplete"

(* C22: a Delay execution is at WorkflowComplete, or has ended in success,
   only if the UpdateFlightStatus write was applied and every booking item
   had its generator call. *)
C22_SuccessOnlyIfAllSucceeded ==
    \A e \in ExecIds :
        (execs[e].wf = "Delay" /\ ReachedSuccess(e))
        => /\ flights[FlightOf(e)].status = "DELAYED"
           /\ Cardinality(CallsOf(e)) = Len(ItemsOf(e))

\* UpdateFlightStatus is the only state that can have failed: the flight has
\* no bookings and the environment failed no call.
C22_Witness ==
    /\ Len(execs) = 1
    /\ execs[1].wf = "Delay"
    /\ FlightOf(1) = "F2"
    /\ faults = 0
    /\ execs[1].status = "FAILED"
    /\ flights["F2"].status = "SCHEDULED"

Caught(t) == "error" \in DOMAIN t.ctx

(* C23: in a Delay execution whose GetAffectedBookings failed, the only
   state that runs afterwards is the Failure Reporter: the Flight is not
   written, no generator call is made and nothing is published. *)
C23_EndsAtReporter ==
    \A t \in toks :
        (execs[ExecOf(t)].wf = "Delay" /\ Caught(t))
        => /\ t.st = "NotifyDelayFailure"
           /\ OfExec(toks, ExecOf(t)) = {t}
           /\ flights[FlightOf(ExecOf(t))].status # "DELAYED"
           /\ CallsOf(ExecOf(t)) = {}
           /\ \A i \in 1..Len(published) : published[i].exec # ExecOf(t)

C23_Witness ==
    \E t \in toks :
        /\ execs[ExecOf(t)].wf = "Delay"
        /\ t.st = "NotifyDelayFailure"
        /\ t.ctx.error.Error = "States.TaskFailed"
        /\ FlightOf(ExecOf(t)) = "F1"
        /\ flights["F1"] = InitFlight

MessageTypeOf(wf) ==
    IF wf = "Delay" THEN "DELAY_NOTIFICATION"
    ELSE IF wf = "Cancellation" THEN "CANCELLATION_NOTIFICATION"
    ELSE "GATE_CHANGE_NOTIFICATION"

(* C25: every booking item of an ended fault-free execution has a generator
   call that carries that item's passenger record, the detail of the
   execution's own trigger and the workflow's message type, and the
   execution makes no generator call of any other content. *)
C25_GeneratorCallContent ==
    \A e \in ExecIds :
        (Ended(e) /\ FaultFree) =>
            /\ \A i \in 1..Len(ItemsOf(e)) :
                  \E c \in CallsOf(e) :
                      /\ calls[c].params.passenger = PassengerItem(ItemsOf(e)[i].passenger_id)
                      /\ calls[c].params.flight_event = execs[e].input.detail
                      /\ calls[c].params.message_type = MessageTypeOf(execs[e].wf)
            /\ \A c \in CallsOf(e) :
                  /\ calls[c].params.flight_event = execs[e].input.detail
                  /\ calls[c].params.message_type = MessageTypeOf(execs[e].wf)
                  /\ \E i \in 1..Len(ItemsOf(e)) :
                        calls[c].params.passenger = PassengerItem(ItemsOf(e)[i].passenger_id)

FlightFieldsOf(wf) ==
    IF wf = "Delay" THEN {"status", "delay_minutes", "delay_reason", "GSI1PK"}
    ELSE IF wf = "Cancellation" THEN {"status", "GSI1PK"}
    ELSE {"gate"}

BookingFieldsOf(wf) ==
    IF wf = "Cancellation" THEN {"booking_status", "GSI2PK"} ELSE {}

(* C26: no step creates or deletes a Flight or Booking record or touches a
   Passenger record, and a step of an execution changes only the fields its
   workflow writes, on the flight of its trigger and the bookings of that
   flight. *)
C26_WritesOnlyOwnFields ==
    [][ /\ passengers' = passengers
        /\ DOMAIN flights' = DOMAIN flights
        /\ DOMAIN bookings' = DOMAIN bookings
        /\ \A e \in ExecIds :
              Changed(e) =>
                /\ \A f \in DOMAIN flights : \A a \in DOMAIN flights[f] :
                      flights'[f][a] # flights[f][a]
                          => f = FlightOf(e) /\ a \in FlightFieldsOf(execs[e].wf)
                /\ \A b \in DOMAIN bookings : \A a \in DOMAIN bookings[b] :
                      bookings'[b][a] # bookings[b][a]
                          => b \in BookingsOf(e) /\ a \in BookingFieldsOf(execs[e].wf) ]_vars

(* C28: a failure of the Failure Reporter step does not fail the execution
   with an unhandled error. *)
C28_ReporterFailureContained ==
    [][ \A t \in toks :
          t.st = "NotifyDelayFailure" => execs'[ExecOf(t)].status # "FAILED" ]_vars

(* C29: the first failure of a task call is retried instead of surfaced:
   the step that fails the call leaves every token where it is and fails no
   execution. *)
C29_FailureIsRetried ==
    [][ (faults = 0 /\ faults' = 1) => (toks' = toks /\ execs' = execs) ]_vars

(* C30: in a Cancellation execution the Flight is CANCELLED only when every
   booking is marked and processed; an execution that failed leaves the
   Flight's status as it was, and a booking marked NEEDS_REBOOKING stays
   marked. *)
C30_CancelledOnlyAtEnd ==
    /\ [](\A e \in ExecIds :
            (execs[e].wf = "Cancellation" /\ Len(execs) = 1) =>
                /\ flights[FlightOf(e)].status = "CANCELLED" =>
                      /\ AllMarked(bookings, e)
                      /\ Cardinality(CallsOf(e)) = Len(ItemsOf(e))
                /\ execs[e].status = "FAILED" =>
                      flights[FlightOf(e)].status = "SCHEDULED")
    /\ [][ \A b \in DOMAIN bookings :
              bookings[b].booking_status = "NEEDS_REBOOKING"
                  => bookings'[b].booking_status = "NEEDS_REBOOKING" ]_vars

C30_Witness ==
    /\ Len(execs) = 1
    /\ execs[1].wf = "Cancellation"
    /\ FlightOf(1) = "F1"
    /\ execs[1].status = "FAILED"
    /\ faults = 0
    /\ AllMarked(bookings, 1)
    /\ flights["F1"].status = "SCHEDULED"

(* C24: whatever the order in which the items of MarkBookingsForRebooking
   ran, once the Map has completed without a failed call the store holds
   exactly the bookings of the flight marked and nothing else changed, and
   no generator call or notification has been made. *)
C24_OutcomeIndependentOfOrder ==
    \A e \in ExecIds :
        ( /\ execs[e].wf = "Cancellation"
          /\ Len(execs) = 1
          /\ faults = 0
          /\ \/ Ended(e)
             \/ \E t \in toks : ExecOf(t) = e /\ IsRoot(t) /\ t.st \in AfterMarking )
        => /\ \A b \in DOMAIN bookings :
                 bookings[b] = IF b \in BookingsOf(e)
                               THEN InitBooking("NEEDS_REBOOKING")
                               ELSE InitBooking("CONFIRMED")
           /\ \A f \in DOMAIN flights : flights[f] = InitFlight
           /\ calls = << >>
           /\ published = << >>

C24_Witness ==
    /\ Len(execs) = 1
    /\ FlightOf(1) = BulkFlight
    /\ Ended(1)
    /\ faults = 0
    /\ AllMarked(bookings, 1)

(* ------------------ one execution, run to its end --------------------- *)
InitFair ==
    /\ flights = [f \in FlightIds \cup {BulkFlight} |-> InitFlight]
    /\ bookings = [b \in BookingIds \cup {BulkBookingIds[i] : i \in 1..Len(BulkBookingIds)} |->
                     InitBooking("CONFIRMED")]
    /\ passengers = PassengerIds
    /\ events = << >>
    /\ execs = << >>
    /\ toks = {}
    /\ calls = << >>
    /\ published = << >>
    /\ reports = << >>
    /\ faults = 0
    /\ dlq = << >>
    /\ responses = << >>
    /\ stream = {}
    /\ handled = << >>

\* One trigger, for any flight.
PublishOne(dt, det) ==
    /\ events = << >>
    /\ PublishTrigger(dt, det)

\* A step of the service.
Engine ==
    \/ \E t \in toks : TaskSucceed(t)
    \/ \E t \in toks : TaskFail(t)
    \/ \E t \in toks : RuntimeError(t)
    \/ \E t \in toks : ChoiceStep(t)
    \/ \E t \in toks : NoOpStep(t)
    \/ \E t \in toks : StartParallel(t)
    \/ \E t \in toks : StartMap(t)
    \/ \E t \in toks : Join(t)

NextFair ==
    \/ \E dt \in TriggerTypes : \E det \in Details(dt) : \E f \in {det.flight_id, BulkFlight} :
          PublishOne(dt, [det EXCEPT !.flight_id = f])
    \/ Engine

\* The service runs every state that is ready to run, and every call returns.
SpecFair == InitFair /\ [][NextFair]_vars /\ WF_vars(Engine)

(* C27: every execution that has started eventually ends, in success or in
   failure. *)
C27_EveryExecutionEnds ==
    (Len(execs) >= 1) ~> (Len(execs) >= 1 /\ Ended(1))

C27_Witness ==
    /\ Len(execs) = 1
    /\ FlightOf(1) = BulkFlight
    /\ execs[1].wf = "Cancellation"
    /\ Ended(1)
    /\ AllMarked(bookings, 1)

(* --------------------------- stream handler --------------------------- *)
StreamSource == "flightpulse.stream-handler"
BatchSize == 10
MaxRecords == 2

\* A value a record does not have.
Undefined == "undefined"
Truthy(v) == v # Undefined /\ v # ""
Attr(img, a) == IF a \in DOMAIN img THEN img[a] ELSE Undefined

NewStatus(record) == Attr(record.NewImage, "booking_status")
OldStatus(record) ==
    IF "OldImage" \in DOMAIN record THEN Attr(record.OldImage, "booking_status")
    ELSE Undefined

\* Every write of a booking that has a status counts as a status change.
StatusChanged_AnyUpdate(record) ==
    /\ record.eventName \in {"MODIFY", "INSERT"}
    /\ "NewImage" \in DOMAIN record
    /\ "PK" \in DOMAIN record.NewImage
    /\ record.NewImage.PK[1] = "BOOKING"
    /\ Attr(record.NewImage, "SK") = "METADATA"
    /\ Truthy(NewStatus(record))

\* The handler's test of one record: an INSERT or MODIFY with a new image of
\* a BOOKING# / METADATA item whose booking_status is set and is not the old
\* image's.
StatusChanged(record) ==
    /\ record.eventName \in {"MODIFY", "INSERT"}
    /\ "NewImage" \in DOMAIN record
    /\ "PK" \in DOMAIN record.NewImage
    /\ record.NewImage.PK[1] = "BOOKING"
    /\ Attr(record.NewImage, "SK") = "METADATA"
    /\ Truthy(NewStatus(record))
    /\ NewStatus(record) # OldStatus(record)

\* The event the handler puts on the bus for a record; the detail is JSON
\* text, which has no member for an undefined old status.
StatusChangedEvent(record) ==
    LET id == record.NewImage.PK[2]
    IN  [source |-> StreamSource,
         detail_type |-> "booking.status_changed",
         detail |-> IF OldStatus(record) = Undefined
                    THEN [booking_id |-> id, new_status |-> NewStatus(record)]
                    ELSE [booking_id |-> id, old_status |-> OldStatus(record),
                          new_status |-> NewStatus(record)]]

\* What a PutEvents call can do: accept the entry, throw, or return with the
\* entry counted as failed.
SendOutcomes == {"ok", "throws", "failed_entry"}

\* The error of a failed send leaves the handler.
ProcessRecord_Rethrows(acc, i, record, sent) ==
    IF ~StatusChanged(record) THEN acc
    ELSE IF sent = "ok" THEN [acc EXCEPT !.events = Append(@, StatusChangedEvent(record))]
    ELSE IF sent = "throws" THEN [acc EXCEPT !.raised = TRUE]
    ELSE acc

\* The body of the handler's loop for record i: the try block, and the catch
\* block that logs the error and goes on.
ProcessRecord(acc, i, record, sent) ==
    IF ~StatusChanged(record) THEN acc
    ELSE IF sent = "ok" THEN [acc EXCEPT !.events = Append(@, StatusChangedEvent(record))]
    ELSE IF sent = "throws" THEN [acc EXCEPT !.errors = Append(@, i)]
    ELSE acc

\* The handler's loop over the records of a batch, from record i on; an
\* error that leaves the loop body ends the loop.
RECURSIVE ProcessRecords(_, _, _, _)
ProcessRecords(acc, i, records, sent) ==
    IF i > Len(records) \/ acc.raised THEN acc
    ELSE ProcessRecords(ProcessRecord(acc, i, records[i], sent[i]), i + 1, records, sent)

streamHandler(records, sent) ==
    ProcessRecords([events |-> << >>, errors |-> << >>, raised |-> FALSE], 1, records, sent)

\* The batches the event source mapping can deliver: at most BatchSize pending
\* records, those of one item in the order they were written.
SameItem(r, o) == r.Keys = o.Keys
IsBatch(records) ==
    /\ Len(records) \in 1..BatchSize
    /\ \A i, j \in 1..Len(records) : i # j => records[i] # records[j]
    /\ \A i \in 1..Len(records) : \A o \in stream :
          (SameItem(o, records[i]) /\ o.seq < records[i].seq) =>
              \E j \in 1..(i - 1) : records[j] = o

RECURSIVE Batches(_, _)
Batches(S, n) ==
    IF n = 0 \/ S = {} THEN {<< >>}
    ELSE {<< >>} \cup UNION {{<<r>> \o q : q \in Batches(S \ {r}, n - 1)} : r \in S}

\* The executions started by the rules that match the events put on the bus.
Triggered(evs) ==
    SetToSeq({x \in [i : 1..Len(evs), rule : Rules] : x.rule \in MatchingRules(evs[x.i])})

\* The batch stays in the stream after the handler has returned.
StreamHandler_NoCheckpoint(records, sent) ==
    LET res == streamHandler(records, sent)
        ts == Triggered(res.events)
        n == Len(execs)
    IN  /\ IsBatch(records)
        /\ handled' = Append(handled, [records |-> records, sent |-> sent,
                                       events |-> res.events, errors |-> res.errors,
                                       raised |-> res.raised])
        /\ stream' = stream
        /\ execs' = execs \o
             [k \in 1..Len(ts) |->
                [wf |-> ts[k].rule.target, ev |-> 0, input |-> res.events[ts[k].i],
                 status |-> "RUNNING", error |-> ""]]
        /\ toks' = toks \cup
             {[id |-> <<n + k>>, st |-> StateMachine(ts[k].rule.target).StartAt,
               ctx |-> res.events[ts[k].i], mode |-> "ready"] : k \in 1..Len(ts)}
        /\ UNCHANGED <<flights, bookings, passengers, events, calls, published,
                       reports, faults, dlq, responses>>

\* One invocation of the stream handler on a batch. The handler returning
\* normally lets the event source mapping move past the batch; an error
\* leaving the handler makes it deliver the batch again.
StreamHandler(records, sent) ==
    LET res == streamHandler(records, sent)
        ts == Triggered(res.events)
        n == Len(execs)
    IN  /\ IsBatch(records)
        /\ handled' = Append(handled, [records |-> records, sent |-> sent,
                                       events |-> res.events, errors |-> res.errors,
                                       raised |-> res.raised])
        /\ stream' = IF res.raised THEN stream ELSE stream \ Range(records)
        /\ execs' = execs \o
             [k \in 1..Len(ts) |->
                [wf |-> ts[k].rule.target, ev |-> 0, input |-> res.events[ts[k].i],
                 status |-> "RUNNING", error |-> ""]]
        /\ toks' = toks \cup
             {[id |-> <<n + k>>, st |-> StateMachine(ts[k].rule.target).StartAt,
               ctx |-> res.events[ts[k].i], mode |-> "ready"] : k \in 1..Len(ts)}
        /\ UNCHANGED <<flights, bookings, passengers, events, calls, published,
                       reports, faults, dlq, responses>>

(* --------------- the stream handler on the table's records ------------ *)
\* A stream record without its position.
StreamRecord(name, pk, sk, olds, news) ==
    LET base == [eventName |-> name, Keys |-> [PK |-> pk, SK |-> sk]]
        withNew == IF news = {} THEN base
                   ELSE [a \in DOMAIN base \cup {"NewImage"} |->
                           IF a = "NewImage" THEN Image(pk, sk, CHOOSE x \in news : TRUE)
                           ELSE base[a]]
    IN  IF olds = {} THEN withNew
        ELSE [a \in DOMAIN withNew \cup {"OldImage"} |->
                IF a = "OldImage" THEN Image(pk, sk, CHOOSE x \in olds : TRUE)
                ELSE withNew[a]]

\* Records the writers of the table give rise to: bookings created, changed
\* in status or in another attribute, and deleted; a flight and a passenger
\* changed; the two lookup records of a booking created.
StreamRecords ==
    LET C == InitBooking("CONFIRMED")
        N == InitBooking("NEEDS_REBOOKING")
        bk(b) == <<"BOOKING", b>>
    IN  {StreamRecord("INSERT", bk("B1"), "METADATA", {}, {C}),
         StreamRecord("MODIFY", bk("B1"), "METADATA", {C}, {N}),
         StreamRecord("MODIFY", bk("B2"), "METADATA", {C}, {N}),
         StreamRecord("MODIFY", bk("B1"), "METADATA", {N}, {N}),
         StreamRecord("MODIFY", bk("B1"), "METADATA", {C}, {C}),
         StreamRecord("REMOVE", bk("B1"), "METADATA", {N}, {}),
         StreamRecord("MODIFY", <<"FLIGHT", "F1">>, "METADATA", {InitFlight},
                      {[InitFlight EXCEPT !.status = "DELAYED", !.GSI1PK = "DELAYED"]}),
         StreamRecord("MODIFY", <<"PASSENGER", "P1">>, "METADATA",
                      {[passenger_id |-> "P1", tier |-> "MEMBER"]},
                      {[passenger_id |-> "P1", tier |-> "GOLD"]}),
         StreamRecord("INSERT", <<"FLIGHT", "F1">>, "BOOKING#B1", {},
                      {[booking_id |-> "B1", passenger_id |-> "P1"]}),
         StreamRecord("INSERT", <<"PASSENGER", "P1">>, "BOOKING#B1", {},
                      {[booking_id |-> "B1", flight_id |-> "F1"]})}

\* A writer of the table changes an item: the stream gets the record.
TableWrite(rec) ==
    /\ Cardinality(stream) + Cardinality(Delivered) < MaxRecords
    /\ stream' = stream \cup
         {[a \in DOMAIN rec \cup {"seq"} |->
             IF a = "seq" THEN NextSeq(stream \cup Delivered, rec.Keys.PK, rec.Keys.SK)
             ELSE rec[a]]}
    /\ UNCHANGED <<flights, bookings, passengers, events, execs, toks, calls,
                   published, reports, faults, dlq, responses, handled>>

\* The outcomes of the sends of a batch; a record that is sent nothing has
\* the outcome "ok".
Sends(records) ==
    {sent \in [1..Len(records) -> SendOutcomes] :
        \A i \in 1..Len(records) : ~StatusChanged(records[i]) => sent[i] = "ok"}

InitHandler ==
    /\ flights = [f \in FlightIds |-> InitFlight]
    /\ bookings = [b \in BookingIds |-> InitBooking("CONFIRMED")]
    /\ passengers = PassengerIds
    /\ events = << >>
    /\ execs = << >>
    /\ toks = {}
    /\ calls = << >>
    /\ published = << >>
    /\ reports = << >>
    /\ faults = 0
    /\ dlq = << >>
    /\ responses = << >>
    /\ stream = {}
    /\ handled = << >>

NextHandler ==
    \/ \E rec \in StreamRecords : TableWrite(rec)
    \/ \E records \in Batches(stream, BatchSize) : \E sent \in Sends(records) :
          StreamHandler(records, sent)

SpecHandler == InitHandler /\ [][NextHandler]_vars

\* A record that reports a change of a booking's status.
IsStatusChange(r) ==
    /\ r.eventName \in {"INSERT", "MODIFY"}
    /\ "NewImage" \in DOMAIN r
    /\ r.Keys.PK[1] = "BOOKING"
    /\ r.Keys.SK = "METADATA"
    /\ "booking_status" \in DOMAIN r.NewImage
    /\ ("OldImage" \in DOMAIN r /\ "booking_status" \in DOMAIN r.OldImage)
          => r.NewImage.booking_status # r.OldImage.booking_status

AllSent(h) == \A i \in 1..Len(h.records) : h.sent[i] = "ok"

(* C31: the stream handler publishes one booking.status_changed event for
   each record of a batch that is an INSERT or MODIFY with a new image of a
   BOOKING# / METADATA item whose booking_status is set and differs from the
   old image's, in record order, carrying the booking id, the old and the new
   status, and publishes nothing for any other record. *)
C31_EventPerStatusChange ==
    \A k \in 1..Len(handled) :
        LET h == handled[k]
            q == SelectSeq(h.records, IsStatusChange)
        IN  /\ Len(h.events) <= Len(q)
            /\ AllSent(h) =>
                 /\ Len(h.events) = Len(q)
                 /\ \A j \in 1..Len(q) :
                       /\ h.events[j].source = StreamSource
                       /\ h.events[j].detail_type = "booking.status_changed"
                       /\ h.events[j].detail.booking_id = q[j].Keys.PK[2]
                       /\ h.events[j].detail.new_status = q[j].NewImage.booking_status
                       /\ "OldImage" \in DOMAIN q[j] =>
                            h.events[j].detail.old_status = q[j].OldImage.booking_status

C31_Witness ==
    /\ Len(handled) = 1
    /\ Len(handled[1].records) = 2
    /\ AllSent(handled[1])
    /\ IsStatusChange(handled[1].records[1])
    /\ ~IsStatusChange(handled[1].records[2])
    /\ handled[1].records[2].eventName = "MODIFY"
    /\ handled[1].records[2].Keys = handled[1].records[1].Keys
    /\ Len(handled[1].events) = 1
    /\ "old_status" \in DOMAIN handled[1].events[1].detail
    /\ handled[1].events[1].detail.old_status = "CONFIRMED"
    /\ handled[1].events[1].detail.new_status = "NEEDS_REBOOKING"

\* The records of a batch whose event was accepted by the bus.
Accepted(h) ==
    {i \in 1..Len(h.records) : IsStatusChange(h.records[i]) /\ h.sent[i] = "ok"}

(* C32: a failure of the send of one record does not stop the batch: the
   handler never raises, the records after the failed one are processed (the
   batch yields one event for each status change whose send was accepted,
   and one logged error for each send that threw), and the failed record is
   not given to the handler again, so its event is lost. *)
C32_FailureSkipsOneRecord ==
    /\ \A k \in 1..Len(handled) :
          LET h == handled[k]
          IN  /\ ~h.raised
              /\ Len(h.events) = Cardinality(Accepted(h))
              /\ \A i \in Accepted(h) : \E j \in 1..Len(h.events) :
                    h.events[j].detail.booking_id = h.records[i].Keys.PK[2]
              /\ Range(h.errors) =
                    {i \in 1..Len(h.records) :
                        IsStatusChange(h.records[i]) /\ h.sent[i] = "throws"}
              /\ Range(h.records) \cap stream = {}
    /\ \A k, l \in 1..Len(handled) :
          k # l => Range(handled[k].records) \cap Range(handled[l].records) = {}

C32_Witness ==
    /\ Len(handled) = 1
    /\ stream = {}
    /\ Len(handled[1].records) = 2
    /\ IsStatusChange(handled[1].records[1])
    /\ IsStatusChange(handled[1].records[2])
    /\ handled[1].sent[1] = "throws"
    /\ handled[1].sent[2] = "ok"
    /\ handled[1].errors = <<1>>
    /\ Len(handled[1].events) = 1
    /\ handled[1].events[1].detail.booking_id = handled[1].records[2].Keys.PK[2]
    /\ handled[1].records[1].Keys.PK[2] # handled[1].records[2].Keys.PK[2]

(* ------------- cancellations with the stream handler running ---------- *)
InitStream ==
    /\ Init
    /\ passengers = PassengerIds

NextStream ==
    \/ \E det \in Details("flight.cancelled") : PublishTrigger("flight.cancelled", det)
    \/ \E t \in toks : TaskSucceed(t)
    \/ \E t \in toks : TaskFail(t)
    \/ \E t \in toks : RuntimeError(t)
    \/ \E t \in toks : StartMap(t)
    \/ \E t \in toks : Join(t)
    \/ \E records \in Batches(stream, BatchSize) : \E sent \in Sends(records) :
          StreamHandler(records, sent)

SpecStream == InitStream /\ [][NextStream]_vars

\* The events the workflows' PutEvents states put on the bus.
WorkflowEvents ==
    UNION {{[source |-> Def(wf, st).Source, detail_type |-> Def(wf, st).DetailType] :
              st \in {x \in DOMAIN StateMachine(wf).States :
                        IF Def(wf, x).Type = "Task"
                        THEN Def(wf, x).Action = "events:putEvents" ELSE FALSE}} :
           wf \in Workflows}

(* C33: no event put on the bus by a workflow or by the stream handler
   matches a rule that starts a workflow, so there are as many executions as
   trigger events of the ingestion source, each started by one of them. *)
C33_NoFeedbackLoop ==
    /\ \A ev \in WorkflowEvents : MatchingRules(ev) = {}
    /\ \A i \in 1..Len(published) : MatchingRules(published[i]) = {}
    /\ \A k \in 1..Len(handled) : \A j \in 1..Len(handled[k].events) :
          MatchingRules(handled[k].events[j]) = {}
    /\ Len(execs) = Len(events)
    /\ \A e \in 1..Len(execs) :
          /\ execs[e].input.source = KafkaSource
          /\ execs[e].ev \in 1..Len(events)

C33_Witness ==
    /\ Len(events) = 2
    /\ Len(execs) = 2
    /\ toks = {}
    /\ stream = {}
    /\ \E k \in 1..Len(handled) : Len(handled[k].events) = 2
    /\ WorkflowEvents # {}

\* The events the stream handler has published about booking b.
EventsAbout(b) ==
    {x \in UNION {{<<k, j>> : j \in 1..Len(handled[k].events)} : k \in 1..Len(handled)} :
        handled[x[1]].events[x[2]].detail.booking_id = b}

Rebooked(f) ==
    \A i \in 1..Len(FlightBookingLookup[f]) :
        bookings[FlightBookingLookup[f][i].booking_id] = InitBooking("NEEDS_REBOOKING")

(* C34: however many times the Cancellation workflow runs for a flight, the
   stream handler publishes at most one booking.status_changed event for
   each booking; once a run has marked the flight's bookings, a later run
   changes neither the bookings nor the flight and adds no record to the
   stream. *)
C34_RerunPublishesNothing ==
    /\ [](\A b \in DOMAIN bookings : Cardinality(EventsAbout(b)) <= 1)
    /\ [][ Rebooked("F1") =>
              /\ bookings' = bookings
              /\ flights' = flights
              /\ stream' \subseteq stream ]_vars

C34_Witness ==
    /\ Len(execs) = 2
    /\ FlightOf(1) = "F1"
    /\ FlightOf(2) = "F1"
    /\ Ended(1)
    /\ Ended(2)
    /\ faults = 0
    /\ Rebooked("F1")
    /\ flights["F1"] = InitFlight
    /\ stream = {}
    /\ \A b \in BookingIds : Cardinality(EventsAbout(b)) = 1

\* The requests for one record, and the requests that read the store.
RecordRoute(req, kind) ==
    req.method = "GET" /\ Len(req.path) = 2 /\ req.path[1] = kind
ListRoute(req) ==
    /\ req.method = "GET"
    /\ \/ req.path = <<"flights">> /\ req.status # ""
       \/ Len(req.path) = 3 /\ req.path[1] \in {"flights", "passengers"}
                            /\ req.path[3] = "bookings"
ReadsStore(req) ==
    ListRoute(req) \/ \E kind \in {"flights", "passengers", "bookings"} : RecordRoute(req, kind)
IsRoute(req) ==
    req.method = "GET" /\ (ReadsStore(req) \/ req.path \in {<<"health">>, <<"flights">>})

(* C35: the read API answers every request with a response: 404 and the
   matching 'not found' error for a flight, passenger or booking that has no
   record; 400 for GET /flights without a status parameter, whether or not
   the store can be read; 404 for a request that matches no route or is not
   a GET; 500 with the error's message when the store call throws. *)
C35_ErrorsAsResponses ==
    \A i \in 1..Len(responses) :
        LET req == responses[i].req
            up == responses[i].storeUp
            res == responses[i].response
            id == IF Len(req.path) >= 2 THEN req.path[2] ELSE ""
        IN  /\ res.statusCode \in {200, 400, 404, 500}
            /\ (up /\ RecordRoute(req, "flights") /\ id \notin DOMAIN flights)
                  => res = Response(404, [error |-> "Flight not found"])
            /\ (up /\ RecordRoute(req, "passengers") /\ id \notin passengers)
                  => res = Response(404, [error |-> "Passenger not found"])
            /\ (up /\ RecordRoute(req, "bookings") /\ id \notin DOMAIN bookings)
                  => res = Response(404, [error |-> "Booking not found"])
            /\ (req.method = "GET" /\ req.path = <<"flights">> /\ req.status = "")
                  => res = Response(400, [error |-> "status query parameter required"])
            /\ ~IsRoute(req) => res = Response(404, [error |-> "Not found"])
            /\ (~up /\ ReadsStore(req)) => res = Response(500, [error |-> "store"])
            /\ res.statusCode = 500 => (~up /\ ReadsStore(req))

C35_Witness ==
    /\ Len(responses) = 2
    /\ responses[1].req.path = <<"bookings", "X">>
    /\ responses[1].storeUp
    /\ responses[1].response.statusCode = 404
    /\ responses[2].req.path = <<"flights">>
    /\ responses[2].req.status = ""
    /\ ~responses[2].storeUp
    /\ responses[2].response.statusCode = 400

(* ------------- the two flight status writes on their own -------------- *)
\* The Cancellation workflow's UpdateFlightStatus call with the trigger
\* event as its state input.
RunCancelUpdateFlight(det) ==
    LET ev == [source |-> KafkaSource, detail_type |-> "flight.cancelled", detail |-> det]
        vals == EvalParams(CancelUpdateFlight.Params, ev, ev)
    IN  /\ Len(events) < MaxEvents
        /\ events' = Append(events, ev)
        /\ flights' = [flights EXCEPT ![vals.Key] = UpdateItem(@, vals)]
        /\ UNCHANGED <<bookings, passengers, execs, toks, calls, published,
                       reports, faults, dlq, responses, stream, handled>>

NextWrites ==
    \/ \E dt \in DelayTypes : \E det \in DelayPayloads(dt) : RunDelayUpdateFlight(dt, det)
    \/ \E det \in Details("flight.cancelled") : RunCancelUpdateFlight(det)

SpecWrites == InitUpdate /\ [][NextWrites]_vars

\* The status a workflow's write sets, by the trigger of the workflow.
StatusWritten(ev) ==
    IF ev.detail_type = "flight.cancelled" THEN "CANCELLED" ELSE "DELAYED"

LastWrite(f) == CHOOSE i \in EventsFor(f) : \A j \in EventsFor(f) : j <= i

(* C36: the flight status writes of the Delay and the Cancellation workflow
   carry no condition: after any sequence of them on a flight, the Flight's
   status and GSI1PK are those of the write applied last, whatever the status
   was before; a Delay write applied to a CANCELLED flight makes it DELAYED. *)
C36_LastWriterWins ==
    \A f \in FlightIds :
        EventsFor(f) # {} =>
            /\ flights[f].status = StatusWritten(events[LastWrite(f)])
            /\ flights[f].GSI1PK = StatusWritten(events[LastWrite(f)])

C36_Witness ==
    /\ Len(events) = 2
    /\ events[1].detail_type = "flight.cancelled"
    /\ events[1].detail.flight_id = "F1"
    /\ events[2].detail_type = "flight.delay.major"
    /\ events[2].detail.flight_id = "F1"
    /\ flights["F1"].status = "DELAYED"
    /\ flights["F1"].GSI1PK = "DELAYED"

====
